---- MODULE Spec2Model ----
(***************************************************************************)
(* Model of the cache write path of src/cache/inmemory/writeToStore.ts:    *)
(* StoreWriter.writeQueryToStore, writeSelectionSetToStore,                *)
(* processSelectionSet, processFieldValue and walkWithMergeOverrides.      *)
(*                                                                         *)
(* One top-level writeQueryToStore call is one action.  The recursive walk *)
(* is computed by recursive operators that thread a write context          *)
(* (store, written, log, failed) through every call, so that every         *)
(* store.merge, store.get, merge-function invocation and diagnostic of the *)
(* call is recorded, in order, in the log of the call.                     *)
(***************************************************************************)
EXTENDS Integers, Sequences, FiniteSets, TLC

VARIABLES store, retained, writes, possibleTypes, run

vars == <<store, retained, writes, possibleTypes, run>>

(***************************************************************************)
(* Bounds of the model.                                                    *)
(***************************************************************************)
MaxWrites == 2

\* the number of frames the call stack of the engine holds; a call that
\* needs one more fails with a RangeError
MaxStack == 20

(***************************************************************************)
(* Values.  A result value or StoreValue is a tagged record:               *)
(*   [t |-> "s", v]      a scalar leaf (all leaves are strings here)       *)
(*   [t |-> "null"]      null                                              *)
(*   [t |-> "l", items]  a list                                            *)
(*   [t |-> "o", f]      an object, f a function from key to value         *)
(*   [t |-> "ref", id]   a Reference to an entity key                      *)
(*   [t |-> "undef"]     undefined / absent                                *)
(***************************************************************************)
Undefined == [t |-> "undef"]
Null == [t |-> "null"]
S(v) == [t |-> "s", v |-> v]
L(items) == [t |-> "l", items |-> items]
O(f) == [t |-> "o", f |-> f]
EmptyMap == [k \in {} |-> Undefined]

makeReference(id) == [t |-> "ref", id |-> id]

isObject(v) == v.t = "o"
isArray(v) == v.t = "l"
isString(v) == v.t = "s"

\* obj && obj[name] for a string (field) or number (index) name
GetProp(obj, name) ==
    IF obj.t = "o" /\ name \in DOMAIN obj.f THEN obj.f[name]
    ELSE IF obj.t = "l" /\ name \in DOMAIN obj.items THEN obj.items[name]
    ELSE Undefined

\* obj[name] = value, for an object or an array obj
SetProp(obj, name, value) ==
    IF obj.t = "o"
    THEN O([k \in DOMAIN obj.f \cup {name} |-> IF k = name THEN value ELSE obj.f[k]])
    ELSE L([i \in DOMAIN obj.items |-> IF i = name THEN value ELSE obj.items[i]])

(***************************************************************************)
(* DeepMerger.merge: objects merge key by key, arrays by position, and in  *)
(* every other case the source replaces the target.                        *)
(***************************************************************************)
RECURSIVE DeepMerge(_, _)
DeepMerge(target, source) ==
    IF isObject(target) /\ isObject(source)
    THEN O([k \in DOMAIN target.f \cup DOMAIN source.f |->
              IF k \notin DOMAIN source.f THEN target.f[k]
              ELSE IF k \notin DOMAIN target.f THEN source.f[k]
              ELSE DeepMerge(target.f[k], source.f[k])])
    ELSE IF isArray(target) /\ isArray(source)
    THEN L([i \in DOMAIN target.items \cup DOMAIN source.items |->
              IF i \notin DOMAIN source.items THEN target.items[i]
              ELSE IF i \notin DOMAIN target.items THEN source.items[i]
              ELSE DeepMerge(target.items[i], source.items[i])])
    ELSE source

(***************************************************************************)
(* Query documents.  A SelectionSetNode is named by an identifier: the     *)
(* writer compares selection sets by node identity (indexOf), so two       *)
(* textually equal selection sets at different places are different nodes. *)
(* A selection is a field (name, alias, one optional argument, optional    *)
(* nested selection set, optional directive), a named fragment spread or   *)
(* an inline fragment.                                                     *)
(***************************************************************************)
NoSelectionSet == "none"

Field(name, selectionSet) ==
    [kind |-> "Field", name |-> name, alias |-> "", arg |-> "",
     selectionSet |-> selectionSet, directive |-> "", typeCondition |-> ""]
Leaf(name) == Field(name, NoSelectionSet)
Aliased(alias, field) == [field EXCEPT !.alias = alias]
WithArg(field, arg) == [field EXCEPT !.arg = arg]
WithDirective(field, directive) == [field EXCEPT !.directive = directive]
FragmentSpread(name) ==
    [kind |-> "FragmentSpread", name |-> name, alias |-> "", arg |-> "",
     selectionSet |-> NoSelectionSet, directive |-> "", typeCondition |-> ""]
InlineFragment(typeCondition, selectionSet) ==
    [kind |-> "InlineFragment", name |-> "", alias |-> "", arg |-> "",
     selectionSet |-> selectionSet, directive |-> "", typeCondition |-> typeCondition]

Entity == <<Leaf("__typename"), Leaf("id")>>

\* query { me { __typename id name pet { __typename id kind } } }
\* query { owner { __typename id age nums tags } }
\* query { people { __typename id name age } }
\* query { me { __typename id name nums } boss { __typename id age nums } }
\* query { pet { __typename id ...DogF ... on Cat { meows } } }
\*   fragment DogF on Dog { barks toy { __typename id kind } }
\* query { me { __typename id address { __typename city lines } } }
\* query { owner { __typename id age } me { __typename id pet { __typename id bad } } }
\* query { owner { __typename id age } pet { __typename id ...Missing } }
\* query { me { __typename id small: pic(size: "s") large: pic(size: "l") } }
\* query { me { __typename id pic(size: "l") nick @client bio @defer motto } }
\* query { name ... on Person { age } }
\* query ($flag: Boolean = true) { me { __typename id
\*     pet @skip(if: $flag) { __typename id kind }
\*     toy @include(if: $flag) { __typename id kind } } }
\* query { me { __typename id addresses { __typename id city lines } } }
\* query { me { __typename id ...F } }
\*   fragment F on Person { name friend { __typename id ...F } bad }
\* query { ...A }
\*   fragment A on Query { me { __typename id } ...B }
\*   fragment B on Query { me { __typename id name } }
\* query { ...G }
\*   fragment G on Query { me { __typename id } ...G }
SelectionSets ==
    [ Q1       |-> <<Field("me", "Q1_me")>>,
      Q1_me    |-> Entity \o <<Leaf("name"), Field("pet", "Q1_pet")>>,
      Q1_pet   |-> Entity \o <<Leaf("kind")>>,
      Q2       |-> <<Field("owner", "Q2_owner")>>,
      Q2_owner |-> Entity \o <<Leaf("age"), Leaf("nums"), Leaf("tags")>>,
      Q3       |-> <<Field("people", "Q3_people")>>,
      Q3_people |-> Entity \o <<Leaf("name"), Leaf("age")>>,
      Q4       |-> <<Field("me", "Q4_me"), Field("boss", "Q4_boss")>>,
      Q4_me    |-> Entity \o <<Leaf("name"), Leaf("nums")>>,
      Q4_boss  |-> Entity \o <<Leaf("age"), Leaf("nums")>>,
      Q5       |-> <<Field("pet", "Q5_pet")>>,
      Q5_pet   |-> Entity \o <<FragmentSpread("DogF"), InlineFragment("Cat", "Q5_cat")>>,
      Q5_cat   |-> <<Leaf("meows")>>,
      DogF     |-> <<Leaf("barks"), Field("toy", "DogF_toy")>>,
      DogF_toy |-> Entity \o <<Leaf("kind")>>,
      Q6       |-> <<Field("me", "Q6_me")>>,
      Q6_me    |-> Entity \o <<Field("address", "Q6_address")>>,
      Q6_address |-> <<Leaf("__typename"), Leaf("city"), Leaf("lines")>>,
      Q7       |-> <<Field("owner", "Q7_owner"), Field("me", "Q7_me")>>,
      Q7_owner |-> Entity \o <<Leaf("age")>>,
      Q7_me    |-> Entity \o <<Field("pet", "Q7_pet")>>,
      Q7_pet   |-> Entity \o <<Leaf("bad")>>,
      Q8       |-> <<Field("owner", "Q8_owner"), Field("pet", "Q8_pet")>>,
      Q8_owner |-> Entity \o <<Leaf("age")>>,
      Q8_pet   |-> Entity \o <<FragmentSpread("Missing")>>,
      Q9       |-> <<Field("me", "Q9_me")>>,
      Q9_me    |-> Entity \o <<Aliased("small", WithArg(Leaf("pic"), "s")),
                                Aliased("large", WithArg(Leaf("pic"), "l"))>>,
      Q10      |-> <<Field("me", "Q10_me")>>,
      Q10_me   |-> Entity \o <<WithArg(Leaf("pic"), "l"),
                                WithDirective(Leaf("nick"), "client"),
                                WithDirective(Leaf("bio"), "defer"),
                                Leaf("motto")>>,
      Q11      |-> <<Leaf("name"), InlineFragment("Person", "Q11_person")>>,
      Q11_person |-> <<Leaf("age")>>,
      Q12      |-> <<Field("me", "Q12_me")>>,
      Q12_me   |-> Entity \o <<WithDirective(Field("pet", "Q12_pet"), "skip"),
                                WithDirective(Field("toy", "Q12_toy"), "include")>>,
      Q12_pet  |-> Entity \o <<Leaf("kind")>>,
      Q12_toy  |-> Entity \o <<Leaf("kind")>>,
      Q13      |-> <<Field("me", "Q13_me")>>,
      Q13_me   |-> Entity \o <<Field("addresses", "Q13_addresses")>>,
      Q13_addresses |-> Entity \o <<Leaf("city"), Leaf("lines")>>,
      Q14      |-> <<Field("me", "Q14_me")>>,
      Q14_me   |-> Entity \o <<FragmentSpread("F")>>,
      F        |-> <<Leaf("name"), Field("friend", "F_friend"), Leaf("bad")>>,
      F_friend |-> Entity \o <<FragmentSpread("F")>>,
      Q15      |-> <<FragmentSpread("A")>>,
      A        |-> <<Field("me", "A_me"), FragmentSpread("B")>>,
      A_me     |-> Entity,
      B        |-> <<Field("me", "B_me")>>,
      B_me     |-> Entity \o <<Leaf("name")>>,
      Q16      |-> <<FragmentSpread("G")>>,
      G        |-> <<Field("me", "G_me"), FragmentSpread("G")>>,
      G_me     |-> Entity ]

\* createFragmentMap(getFragmentDefinitions(query)), per document
NoFragments == [n \in {} |-> Undefined]
FragmentDefinition(typeCondition, selectionSet) ==
    [typeCondition |-> typeCondition, selectionSet |-> selectionSet]

\* A document: the operation's selection set, the default values of its
\* declared variables, and its fragment definitions.
Document(selectionSet, defaults, fragments) ==
    [selectionSet |-> selectionSet, defaults |-> defaults, fragmentMap |-> fragments]
NoVariables == [n \in {} |-> FALSE]

Documents ==
    [ Q1 |-> Document("Q1", NoVariables, NoFragments),
      Q2 |-> Document("Q2", NoVariables, NoFragments),
      Q3 |-> Document("Q3", NoVariables, NoFragments),
      Q4 |-> Document("Q4", NoVariables, NoFragments),
      Q5 |-> Document("Q5", NoVariables,
                      [DogF |-> FragmentDefinition("Dog", "DogF")]),
      Q6 |-> Document("Q6", NoVariables, NoFragments),
      Q7 |-> Document("Q7", NoVariables, NoFragments),
      Q8 |-> Document("Q8", NoVariables, NoFragments),
      Q9 |-> Document("Q9", NoVariables, NoFragments),
      Q10 |-> Document("Q10", NoVariables, NoFragments),
      Q11 |-> Document("Q11", NoVariables, NoFragments),
      Q12 |-> Document("Q12", [flag |-> TRUE], NoFragments),
      Q13 |-> Document("Q13", NoVariables, NoFragments),
      Q14 |-> Document("Q14", NoVariables,
                       [F |-> FragmentDefinition("Person", "F")]),
      Q15 |-> Document("Q15", NoVariables,
                       [A |-> FragmentDefinition("Query", "A"),
                        B |-> FragmentDefinition("Query", "B")]),
      Q16 |-> Document("Q16", NoVariables,
                       [G |-> FragmentDefinition("Query", "G")]) ]

isField(selection) == selection.kind = "Field"

resultKeyNameFromField(field) ==
    IF field.alias # "" THEN field.alias ELSE field.name

\* shouldInclude: @skip(if: $flag) / @include(if: $flag); any other
\* directive does not exclude the selection
shouldInclude(selection, variables) ==
    CASE selection.directive = "skip" -> ~variables["flag"]
      [] selection.directive = "include" -> variables["flag"]
      [] OTHER -> TRUE

\* getFragmentFromSelection: an inline fragment is its own fragment; a
\* spread is looked up in the fragment map (Undefined stands for the
\* invariant failure "No fragment named ...")
getFragmentFromSelection(selection, fragmentMap) ==
    IF selection.kind = "InlineFragment"
    THEN FragmentDefinition(selection.typeCondition, selection.selectionSet)
    ELSE IF selection.name \in DOMAIN fragmentMap
    THEN fragmentMap[selection.name]
    ELSE Undefined

\* getTypenameFromResult: result.__typename when it is a string
getTypenameFromResult(result, selectionSet, fragmentMap) ==
    IF isString(GetProp(result, "__typename"))
    THEN GetProp(result, "__typename")
    ELSE Undefined

(***************************************************************************)
(* The Policy Provider.                                                    *)
(***************************************************************************)
rootTypenamesById(dataId) ==
    CASE dataId = "ROOT_QUERY" -> S("Query")
      [] dataId = "ROOT_MUTATION" -> S("Mutation")
      [] OTHER -> Undefined

\* policies.usingPossibleTypes: set when the policies were configured
usingPossibleTypes == possibleTypes

\* policies.identify: `${__typename}:${id}` when the object has both
identify(value, selectionSet, fragmentMap) ==
    LET typename == getTypenameFromResult(value, selectionSet, fragmentMap)
        id == GetProp(value, "id")
    IN  IF isString(typename) /\ isString(id)
        THEN S(typename.v \o ":" \o id.v)
        ELSE Undefined

\* policies.getStoreFieldName: the field name plus its arguments
getStoreFieldName(typename, field, variables) ==
    IF field.arg = "" THEN field.name
    ELSE field.name \o "(" \o field.arg \o ")"

\* policies.fragmentMatches: exact match of the type condition
fragmentMatches(fragment, typename) ==
    isString(typename) /\ fragment.typeCondition = typename.v

\* policies.getFieldMergeFunction: the merge function configured for
\* (typename, field name); "" when there is none
NoMerge == ""
getFieldMergeFunction(typename, field, variables) ==
    IF ~isString(typename) THEN NoMerge
    ELSE CASE typename.v = "Person" /\ field.name = "nums" -> "concat"
           [] typename.v = "Person" /\ field.name = "tags" -> "replace"
           [] typename.v = "Person" /\ field.name = "address" -> "replace"
           [] typename.v = "Address" /\ field.name = "lines" -> "concat"
           [] typename.v = "Dog" /\ field.name = "bad" -> "boom"
           [] typename.v = "Person" /\ field.name = "bad" -> "boom"
           [] OTHER -> NoMerge

\* The configured merge functions:
\*   concat:  (existing, incoming) => existing ? [...existing, ...incoming] : incoming
\*   replace: (existing, incoming) => incoming
\*   boom:    throws
MergeThrows(fn, existing, incoming) == fn = "boom"
ApplyMerge(fn, existing, incoming) ==
    CASE fn = "concat" ->
           IF isArray(existing) /\ isArray(incoming)
           THEN L(existing.items \o incoming.items) ELSE incoming
      [] OTHER -> incoming

(***************************************************************************)
(* MergeOverrides.  An overrides object is                                 *)
(*   [t |-> "ov",  keys, at]   keyed by storage key (keys in insertion     *)
(*                             order, the order of Object.keys), or        *)
(*   [t |-> "lov", keys, ati]  keyed by list index (the sparse array built *)
(*                             for a list value),                          *)
(* and an entry is [merge, child]: a merge function name or NoMerge, and   *)
(* a nested overrides object or Undefined.                                 *)
(***************************************************************************)
\* Object.keys of a sparse array: its indices in ascending order
Ascending(indices) ==
    [i \in 1..Cardinality(indices) |->
       CHOOSE k \in indices : Cardinality({j \in indices : j < k}) = i - 1]

OvAt(overrides, name) ==
    IF overrides.t = "ov" THEN overrides.at[name] ELSE overrides.ati[name]

\* context.merge(existingEntry, { merge, child }): the incoming entry names
\* both keys, so its merge replaces the existing one, and its child
\* replaces the existing child unless both are objects, which merge by key
RECURSIVE MergeEntry(_, _)
MergeEntry(existing, incoming) ==
    IF existing = Undefined THEN incoming
    ELSE LET a == existing.child
             b == incoming.child
         IN  [merge |-> incoming.merge,
              child |->
                IF a.t = "ov" /\ b.t = "ov"
                THEN [t |-> "ov",
                      keys |-> a.keys \o SelectSeq(b.keys, LAMBDA k : k \notin DOMAIN a.at),
                      at |-> [k \in DOMAIN a.at \cup DOMAIN b.at |->
                                IF k \notin DOMAIN b.at THEN a.at[k]
                                ELSE IF k \notin DOMAIN a.at THEN b.at[k]
                                ELSE MergeEntry(a.at[k], b.at[k])]]
                ELSE IF a.t = "lov" /\ b.t = "lov"
                THEN [t |-> "lov",
                      keys |-> Ascending(DOMAIN a.ati \cup DOMAIN b.ati),
                      ati |-> [k \in DOMAIN a.ati \cup DOMAIN b.ati |->
                                IF k \notin DOMAIN b.ati THEN a.ati[k]
                                ELSE IF k \notin DOMAIN a.ati THEN b.ati[k]
                                ELSE MergeEntry(a.ati[k], b.ati[k])]]
                ELSE b]

\* mergeOverrides = mergeOverrides || Object.create(null);
\* mergeOverrides[storeFieldName] = entry
SetOverride(mergeOverrides, storeFieldName, entry) ==
    IF mergeOverrides = Undefined
    THEN [t |-> "ov", keys |-> <<storeFieldName>>, at |-> (storeFieldName :> entry)]
    ELSE [t |-> "ov",
          keys |-> IF storeFieldName \in DOMAIN mergeOverrides.at
                   THEN mergeOverrides.keys
                   ELSE Append(mergeOverrides.keys, storeFieldName),
          at |-> [k \in DOMAIN mergeOverrides.at \cup {storeFieldName} |->
                    IF k = storeFieldName THEN entry ELSE mergeOverrides.at[k]]]

\* Mutant of SetIndexOverride: the entry is pushed, so it lands at the next
\* free index instead of the index of its element
SetIndexOverrideDense(overrides, i, child) ==
    LET entry == [merge |-> NoMerge, child |-> child]
    IN  IF overrides = Undefined
        THEN [t |-> "lov", keys |-> <<1>>, ati |-> (1 :> entry)]
        ELSE [t |-> "lov", keys |-> Append(overrides.keys, Len(overrides.keys) + 1),
              ati |-> [k \in 1..(Len(overrides.keys) + 1) |->
                         IF k = Len(overrides.keys) + 1 THEN entry
                         ELSE overrides.ati[k]]]

\* overrides = overrides || []; overrides[i] = { child: mergeOverrides }
SetIndexOverride(overrides, i, child) ==
    LET entry == [merge |-> NoMerge, child |-> child]
    IN  IF overrides = Undefined
        THEN [t |-> "lov", keys |-> <<i>>, ati |-> (i :> entry)]
        ELSE [t |-> "lov", keys |-> Append(overrides.keys, i),
              ati |-> [k \in DOMAIN overrides.ati \cup {i} |->
                         IF k = i THEN entry ELSE overrides.ati[k]]]

(***************************************************************************)
(* The Entity Store: a function from entity key to field map.              *)
(***************************************************************************)
EmptyStore == [k \in {} |-> Undefined]

StoreGet(st, dataId) == IF dataId \in DOMAIN st THEN st[dataId] ELSE Undefined

StoreGetFieldValue(st, dataId, name) == GetProp(StoreGet(st, dataId), name)

\* store.merge(dataId, incoming): structural merge of the incoming field map
\* into the record stored under dataId
StoreMerge(st, dataId, incoming) ==
    [k \in DOMAIN st \cup {dataId} |->
       IF k # dataId THEN st[k]
       ELSE IF dataId \in DOMAIN st THEN DeepMerge(st[dataId], incoming)
       ELSE incoming]

(***************************************************************************)
(* The write context: the store, the written table (the set of             *)
(* (dataId, selectionSet) pairs pushed so far), the variables and the      *)
(* fragment map of the call, plus the log of what the call has done and    *)
(* whether an exception is propagating.                                    *)
(***************************************************************************)
Logged(ctx, event) == [ctx EXCEPT !.log = Append(@, event)]
Thrown(ctx, what) ==
    [ctx EXCEPT !.failed = TRUE, !.log = Append(@, [e |-> "throw", what |-> what])]

\* Mutants of AlreadyWritten: no dedup at all; dedup on the entity key alone
AlreadyWrittenNever(written, dataId, selectionSet) == FALSE
AlreadyWrittenAnySet(written, dataId, selectionSet) ==
    \E pair \in written : pair[1] = dataId

\* sets.indexOf(selectionSet) >= 0
AlreadyWritten(written, dataId, selectionSet) ==
    <<dataId, selectionSet>> \in written

(***************************************************************************)
(* walkWithMergeOverrides: for each name of the overrides, first walk the  *)
(* child overrides, then apply the merge function of the name.  Returns    *)
(* the updated incoming object, the log and whether a function threw.      *)
(* walkNames is the forEach loop; ChildWalk is the recursive call for one  *)
(* name and AfterChild the rest of the loop body.                          *)
(***************************************************************************)
RECURSIVE walkWithMergeOverrides(_, _, _, _, _)
RECURSIVE walkNames(_, _, _, _, _, _)
RECURSIVE ChildWalk(_, _, _, _, _, _)
RECURSIVE AfterChild(_, _, _, _, _, _)

walkWithMergeOverrides(existingObject, incomingObject, overrides, log, path) ==
    walkNames(existingObject, incomingObject, overrides, 1, log, path)

\* merge(existingValue, incomingValue)
ApplyOverride(merge, existingValue, incomingValue) ==
    ApplyMerge(merge, existingValue, incomingValue)

\* Mutant of IncomingAfterChild: the merge function is given the value as it
\* was before the child walk
IncomingBeforeChild(incomingValue, walked) == incomingValue

\* The child walk updates incomingValue in place, so the incomingValue the
\* merge function is given afterwards is the walked one
IncomingAfterChild(incomingValue, walked) == walked

walkNames(existingObject, incomingObject, overrides, i, log, path) ==
    IF i > Len(overrides.keys)
    THEN [incoming |-> incomingObject, log |-> log, failed |-> FALSE]
    ELSE AfterChild(existingObject, incomingObject, overrides, i, path,
                    ChildWalk(existingObject, incomingObject, overrides, i, log, path))

\* if (child) walkWithMergeOverrides(existingValue, incomingValue, child)
ChildWalk(existingObject, incomingObject, overrides, i, log, path) ==
    LET name == overrides.keys[i]
        child == OvAt(overrides, name).child
    IN  IF child # Undefined
        THEN walkWithMergeOverrides(GetProp(existingObject, name),
                                    GetProp(incomingObject, name),
                                    child, log, Append(path, name))
        ELSE [incoming |-> GetProp(incomingObject, name), log |-> log,
              failed |-> FALSE]

\* if (merge) incomingObject[name] = merge(existingValue, incomingValue)
AfterChild(existingObject, incomingObject, overrides, i, path, c) ==
    LET name == overrides.keys[i]
        entry == OvAt(overrides, name)
        existingValue == GetProp(existingObject, name)
        incomingValue == GetProp(incomingObject, name)
        settable == isObject(incomingObject) \/ isArray(incomingObject)
        walked == IncomingAfterChild(incomingValue, c.incoming)
        afterChild == IF entry.child # Undefined /\ settable /\ incomingValue # Undefined
                      THEN SetProp(incomingObject, name, walked)
                      ELSE incomingObject
        out == ApplyOverride(entry.merge, existingValue, walked)
    IN  IF c.failed THEN c
        ELSE IF entry.merge = NoMerge
        THEN walkNames(existingObject, afterChild, overrides, i + 1, c.log, path)
        ELSE IF MergeThrows(entry.merge, existingValue, walked) \/ ~settable
        THEN [incoming |-> afterChild, failed |-> TRUE,
              log |-> Append(c.log, [e |-> "throw", what |-> entry.merge])]
        ELSE walkNames(
               existingObject, SetProp(afterChild, name, out), overrides, i + 1,
               Append(c.log,
                      [e |-> "mergeFn", fn |-> entry.merge,
                       path |-> Append(path, name),
                       existing |-> existingValue, incoming |-> walked,
                       out |-> out, child |-> entry.child]),
               path)

(***************************************************************************)
(* The recursive walk: writeSelectionSetToStore, processSelectionSet       *)
(* (processSelections is its forEach loop) and processFieldValue           *)
(* (processItems is its value.map loop).  A call made while an exception   *)
(* propagates (ctx.failed) does nothing.  The After... operators are the   *)
(* code that follows a recursive call and uses its result.                 *)
(***************************************************************************)
RECURSIVE writeSelectionSetToStore(_, _, _, _)
RECURSIVE AfterProcess(_, _, _)
RECURSIVE processSelectionSet(_, _, _, _, _)
RECURSIVE processSelections(_, _, _, _, _, _, _)
RECURSIVE AfterField(_, _, _, _, _, _, _)
RECURSIVE AfterFragment(_, _, _, _, _, _)
RECURSIVE processFieldValue(_, _, _)
RECURSIVE processItems(_, _, _, _, _, _)
RECURSIVE AfterItem(_, _, _, _, _, _)

\* the existing object handed to walkWithMergeOverrides: store.get(dataId)
ExistingForWalk(ctx, dataId) == StoreGet(ctx.store, dataId)

\* Mutant of Commit: the incoming field map replaces the stored record
CommitReplaces(st, dataId, incoming) ==
    [k \in DOMAIN st \cup {dataId} |-> IF k = dataId THEN incoming ELSE st[k]]

\* the value committed by store.merge(dataId, processed.result)
Commit(st, dataId, incoming) == StoreMerge(st, dataId, incoming)

\* Mutant of Finish: the field map is committed although an exception
\* propagates (as a finally block would)
FinishAlwaysCommits(ctx, dataId, selectionSet, walk) ==
    [ctx EXCEPT
       !.failed = walk.failed,
       !.store = Commit(ctx.store, dataId, walk.incoming),
       !.log = Append(walk.log,
                      [e |-> "store.merge", dataId |-> dataId,
                       selectionSet |-> selectionSet,
                       incoming |-> walk.incoming])]

\* An exception thrown by processSelectionSet or by the walk leaves
\* writeSelectionSetToStore before store.merge; otherwise the walked field
\* map is committed
Finish(ctx, dataId, selectionSet, walk) ==
    IF walk.failed
    THEN [ctx EXCEPT !.failed = TRUE, !.log = walk.log]
    ELSE [ctx EXCEPT
            !.store = Commit(ctx.store, dataId, walk.incoming),
            !.log = Append(walk.log,
                           [e |-> "store.merge", dataId |-> dataId,
                            selectionSet |-> selectionSet,
                            incoming |-> walk.incoming])]

\* Mutant of HasValue: a field absent from the result is processed too
HasValueAlways(value) == TRUE

\* typeof value !== 'undefined'
HasValue(value) == value # Undefined

\* Mutant of EntersFragment: every fragment is entered
EntersFragmentAlways(fragment, typename) == TRUE

\* if (this.policies.fragmentMatches(fragment, typename))
EntersFragment(fragment, typename) == fragmentMatches(fragment, typename)

\* Mutant of NormalizedResult: the object itself is kept in the parent
NormalizedResultEmbedded(dataId, value) == value

\* the value a field holds for an object identified as dataId
NormalizedResult(dataId, value) == makeReference(dataId)

\* Mutant of ResolveTypename: the default of the key is preferred to the
\* stored type name
ResolveTypenameRootFirst(ctx, dataId, result, selectionSet) ==
    LET fromResult == getTypenameFromResult(result, selectionSet, ctx.fragmentMap)
        fromStore == StoreGetFieldValue(ctx.store, dataId, "__typename")
    IN  IF isString(fromResult) THEN fromResult
        ELSE IF isString(rootTypenamesById(dataId)) THEN rootTypenamesById(dataId)
        ELSE fromStore

\* getTypenameFromResult(...) || store.getFieldValue(dataId, "__typename")
\*   || this.policies.rootTypenamesById[dataId]
ResolveTypename(ctx, dataId, result, selectionSet) ==
    LET fromResult == getTypenameFromResult(result, selectionSet, ctx.fragmentMap)
        fromStore == StoreGetFieldValue(ctx.store, dataId, "__typename")
    IN  IF isString(fromResult) THEN fromResult
        ELSE IF isString(fromStore) THEN fromStore
        ELSE rootTypenamesById(dataId)

\* sets.push(selectionSet), and the typename resolution's read of the store
Entered(ctx, dataId, result, selectionSet) ==
    LET pushed == Logged([ctx EXCEPT !.written = @ \cup {<<dataId, selectionSet>>}],
                         [e |-> "write", dataId |-> dataId,
                          selectionSet |-> selectionSet, result |-> result,
                          typename |-> ResolveTypename(ctx, dataId, result,
                                                       selectionSet)])
    IN  IF isString(getTypenameFromResult(result, selectionSet, ctx.fragmentMap))
        THEN pushed
        ELSE Logged(pushed, [e |-> "getFieldValue", dataId |-> dataId])

writeSelectionSetToStore(ctx, dataId, result, selectionSet) ==
    IF AlreadyWritten(ctx.written, dataId, selectionSet)
    THEN Logged(ctx, [e |-> "skip", dataId |-> dataId, selectionSet |-> selectionSet,
                      result |-> result])
    ELSE AfterProcess(
           dataId, selectionSet,
           processSelectionSet(
             Entered(ctx, dataId, result, selectionSet), result, selectionSet,
             Undefined, ResolveTypename(ctx, dataId, result, selectionSet)))

\* if (processed.mergeOverrides) walkWithMergeOverrides(store.get(dataId),
\*   processed.result, processed.mergeOverrides); store.merge(...)
AfterProcess(dataId, selectionSet, processed) ==
    Finish(processed.ctx, dataId, selectionSet,
           IF processed.ctx.failed
           THEN [incoming |-> processed.result, log |-> processed.ctx.log,
                 failed |-> TRUE]
           ELSE IF processed.mergeOverrides # Undefined
           THEN walkWithMergeOverrides(
                  ExistingForWalk(processed.ctx, dataId), processed.result,
                  processed.mergeOverrides,
                  Append(processed.ctx.log, [e |-> "get", dataId |-> dataId]),
                  <<dataId>>)
           ELSE [incoming |-> processed.result, log |-> processed.ctx.log,
                 failed |-> FALSE])

processSelectionSet(ctx, result, selectionSet, mergeOverrides, typename) ==
    processSelections(
        ctx, result, selectionSet, 1,
        IF isString(typename) THEN O([__typename |-> typename]) ELSE O(EmptyMap),
        mergeOverrides, typename)

\* Mutant of Included: directives are not evaluated
IncludedAlways(selection, variables) == TRUE

\* if (!shouldInclude(selection, context.variables)) return
Included(selection, variables) == shouldInclude(selection, variables)

\* Mutant of FieldSlot: the value is stored under the result key
FieldSlotResultKey(typename, selection, variables) ==
    resultKeyNameFromField(selection)

\* the key of mergedFields (and of mergeOverrides) a field's value goes to
FieldSlot(typename, selection, variables) ==
    getStoreFieldName(typename, selection, variables)

\* Mutant of WarnsWhenMissing: the directives of the field are not looked at
WarnsWhateverDirective(selection) == usingPossibleTypes

\* the missing-field diagnostic is emitted unless the field carries a
\* defer or client directive
WarnsWhenMissing(selection) ==
    usingPossibleTypes /\ selection.directive \notin {"defer", "client"}

processSelections(ctx, result, selectionSet, i, mergedFields, mergeOverrides, typename) ==
    IF ctx.failed \/ i > Len(SelectionSets[selectionSet])
    THEN [ctx |-> ctx, result |-> mergedFields, mergeOverrides |-> mergeOverrides]
    ELSE
    LET selection == SelectionSets[selectionSet][i]
        value == GetProp(result, resultKeyNameFromField(selection))
        fragment == getFragmentFromSelection(selection, ctx.fragmentMap)
    IN
    IF ~Included(selection, ctx.variables)
    THEN processSelections(ctx, result, selectionSet, i + 1,
                           mergedFields, mergeOverrides, typename)
    ELSE IF isField(selection)
    THEN
      IF HasValue(value)
      THEN AfterField(result, selectionSet, i, mergedFields, mergeOverrides, typename,
                      processFieldValue(ctx, value, selection))
      ELSE processSelections(
             IF WarnsWhenMissing(selection)
             THEN Logged(ctx, [e |-> "warn", selectionSet |-> selectionSet,
                               name |-> resultKeyNameFromField(selection),
                               result |-> result])
             ELSE ctx,
             result, selectionSet, i + 1, mergedFields, mergeOverrides, typename)
    ELSE
      IF fragment = Undefined
      THEN [ctx |-> Thrown(ctx, selection.name), result |-> mergedFields,
            mergeOverrides |-> mergeOverrides]
      ELSE IF EntersFragment(fragment, typename)
      THEN AfterFragment(
             result, selectionSet, i, mergedFields, typename,
             processSelectionSet(
               Logged(ctx, [e |-> "fragment", typename |-> typename,
                            typeCondition |-> fragment.typeCondition,
                            selectionSet |-> fragment.selectionSet,
                            result |-> result]),
               result, fragment.selectionSet, mergeOverrides, typename))
      ELSE processSelections(
             Logged(ctx, [e |-> "fragment", typename |-> typename,
                          typeCondition |-> fragment.typeCondition,
                          selectionSet |-> fragment.selectionSet,
                          result |-> result]),
             result, selectionSet, i + 1, mergedFields, mergeOverrides, typename)

\* the field case after processFieldValue: the override entry of the storage
\* key, and the processed value merged into mergedFields
AfterField(result, selectionSet, i, mergedFields, mergeOverrides, typename, processed) ==
    LET selection == SelectionSets[selectionSet][i]
        ctx == processed.ctx
        storeFieldName == FieldSlot(typename, selection, ctx.variables)
        merge == getFieldMergeFunction(typename, selection, ctx.variables)
    IN  IF ctx.failed
        THEN [ctx |-> ctx, result |-> mergedFields, mergeOverrides |-> mergeOverrides]
        ELSE processSelections(
               Logged(ctx,
                      [e |-> "field", selectionSet |-> selectionSet, i |-> i,
                       name |-> storeFieldName, value |-> processed.result,
                       overrides |-> processed.mergeOverrides,
                       typename |-> typename,
                       input |-> GetProp(result, resultKeyNameFromField(selection)),
                       sub |-> selection.selectionSet]),
               result, selectionSet, i + 1,
               DeepMerge(mergedFields, O(storeFieldName :> processed.result)),
               IF merge # NoMerge \/ processed.mergeOverrides # Undefined
               THEN SetOverride(
                      mergeOverrides, storeFieldName,
                      MergeEntry(
                        IF mergeOverrides # Undefined
                           /\ storeFieldName \in DOMAIN mergeOverrides.at
                        THEN mergeOverrides.at[storeFieldName] ELSE Undefined,
                        [merge |-> merge, child |-> processed.mergeOverrides]))
               ELSE mergeOverrides,
               typename)

\* the fragment case after the recursive processSelectionSet, which was
\* given (and has updated) the mergeOverrides of this call
AfterFragment(result, selectionSet, i, mergedFields, typename, processed) ==
    processSelections(processed.ctx, result, selectionSet, i + 1,
                      DeepMerge(mergedFields, processed.result),
                      processed.mergeOverrides, typename)

processFieldValue(ctx, value, field) ==
    IF field.selectionSet = NoSelectionSet \/ value = Null
    THEN [ctx |-> ctx, result |-> value, mergeOverrides |-> Undefined]
    ELSE IF isArray(value)
    THEN processItems(ctx, value.items, 1, field, <<>>, Undefined)
    ELSE IF isString(identify(value, field.selectionSet, ctx.fragmentMap))
    THEN [ctx |-> writeSelectionSetToStore(
                    ctx, identify(value, field.selectionSet, ctx.fragmentMap).v,
                    value, field.selectionSet),
          result |-> NormalizedResult(
                       identify(value, field.selectionSet, ctx.fragmentMap).v, value),
          mergeOverrides |-> Undefined]
    ELSE processSelectionSet(
           ctx, value, field.selectionSet, Undefined,
           getTypenameFromResult(value, field.selectionSet, ctx.fragmentMap))

processItems(ctx, items, i, field, result, overrides) ==
    IF ctx.failed \/ i > Len(items)
    THEN [ctx |-> ctx, result |-> L(result), mergeOverrides |-> overrides]
    ELSE AfterItem(items, i, field, result, overrides,
                   processFieldValue(ctx, items[i], field))

\* if (mergeOverrides) overrides[i] = { child: mergeOverrides }; return result
AfterItem(items, i, field, result, overrides, processed) ==
    processItems(
      processed.ctx, items, i + 1, field, Append(result, processed.result),
      IF processed.mergeOverrides # Undefined
      THEN SetIndexOverride(overrides, i, processed.mergeOverrides)
      ELSE overrides)

(***************************************************************************)
(* writeQueryToStore: retains dataId, builds a fresh context (empty        *)
(* written table, default variable values overlaid by the caller's) and    *)
(* calls writeSelectionSetToStore on the operation's selection set.        *)
(***************************************************************************)
\* Mutant of Retain: retaining a key that is already retained does nothing
RetainOnce(counts, dataId) ==
    [k \in DOMAIN counts \cup {dataId} |-> IF k \in DOMAIN counts THEN counts[k] ELSE 1]

\* store.retain(dataId): one more retainment of dataId
Retain(counts, dataId) ==
    [k \in DOMAIN counts \cup {dataId} |->
       IF k \in DOMAIN counts
       THEN (IF k = dataId THEN counts[k] + 1 ELSE counts[k])
       ELSE 1]

\* Mutant of FreshWritten: the table of the previous top-level call is kept
StaleWritten == IF writes = <<>> THEN {} ELSE writes[Len(writes)].written

\* written: Object.create(null), a new table for every call
FreshWritten == {}

writeQueryToStore(query, result, dataId, st, variables) ==
    writeSelectionSetToStore(
        [store |-> st,
         written |-> FreshWritten,
         log |-> <<[e |-> "retain", dataId |-> dataId]>>,
         failed |-> FALSE,
         variables |-> variables @@ Documents[query].defaults,
         fragmentMap |-> Documents[query].fragmentMap],
        dataId,
        IF result = Undefined \/ result = Null THEN O(EmptyMap) ELSE result,
        Documents[query].selectionSet)

(***************************************************************************)
(* Results.                                                                *)
(***************************************************************************)
Person(id) == [__typename |-> S("Person"), id |-> S(id)]
Pet(typename, id) == [__typename |-> S(typename), id |-> S(id)]
Nums(a) == L([i \in 1..Len(a) |-> S(a[i])])

Results ==
    [ Q1 |-> {
        O([me |-> O(Person("1") @@ [name |-> S("A"),
                     pet |-> O(Pet("Cat", "9") @@ [kind |-> S("cat")])])]),
        O([me |-> O(Person("1") @@ [name |-> S("B")])]),
        O([me |-> O(Person("1") @@ [name |-> S("A"),
                     pet |-> O([__typename |-> S("Cat"), kind |-> S("cat")])])]),
        O([__typename |-> S("MyQuery"),
           me |-> O(Person("1") @@ [name |-> S("C")])]) },
      Q2 |-> {
        O([owner |-> O(Person("1") @@ [age |-> S("30"), nums |-> Nums(<<"1", "2">>),
                        tags |-> Nums(<<"x", "y">>)])]),
        O([owner |-> O(Person("1") @@ [nums |-> Nums(<<"3", "4">>),
                        tags |-> Nums(<<"z">>)])]) },
      Q3 |-> {
        O([people |-> L(<<O(Person("1") @@ [name |-> S("A")]),
                          O(Person("1") @@ [age |-> S("30")])>>)]),
        O([people |-> L(<<O(Person("1") @@ [name |-> S("A"), age |-> S("30")]),
                          Null,
                          O(Person("2") @@ [name |-> S("B")])>>)]) },
      Q4 |-> {
        O([me |-> O(Person("1") @@ [name |-> S("A"), nums |-> Nums(<<"1">>)]),
           boss |-> O(Person("1") @@ [age |-> S("30"), nums |-> Nums(<<"2">>)])]),
        O([me |-> O(Person("1") @@ [name |-> S("A"), nums |-> Nums(<<"1">>)]),
           boss |-> O(Person("2") @@ [age |-> S("40"), nums |-> Nums(<<"2">>)])]) },
      Q5 |-> {
        O([pet |-> O(Pet("Dog", "9") @@ [barks |-> S("loud"),
                      toy |-> O(Pet("Toy", "5") @@ [kind |-> S("ball")])])]),
        O([pet |-> O(Pet("Cat", "9") @@ [meows |-> S("soft"), barks |-> S("no"),
                      toy |-> O(Pet("Toy", "5") @@ [kind |-> S("ball")])])]),
        O([pet |-> O(Pet("Cat", "9"))]) },
      Q6 |-> {
        O([me |-> O(Person("1") @@ [address |->
                     O([__typename |-> S("Address"), city |-> S("X"),
                        lines |-> Nums(<<"a">>)])])]),
        O([me |-> O(Person("1") @@ [address |->
                     O([__typename |-> S("Address"),
                        lines |-> Nums(<<"b">>)])])]) },
      Q7 |-> {
        O([owner |-> O(Person("2") @@ [age |-> S("40")]),
           me |-> O(Person("1") @@ [pet |-> O(Pet("Dog", "9") @@ [bad |-> S("x")])])]),
        O([owner |-> O(Person("2") @@ [age |-> S("40")]),
           me |-> O(Person("1") @@ [pet |-> O(Pet("Cat", "9") @@ [bad |-> S("x")])])]) },
      Q8 |-> {
        O([owner |-> O(Person("2") @@ [age |-> S("40")]),
           pet |-> O(Pet("Cat", "9"))]) },
      Q9 |-> {
        O([me |-> O(Person("1") @@ [small |-> S("S"), large |-> S("L")])]) },
      Q10 |-> {
        O([me |-> O(Person("1") @@ [pic |-> S("L2")])]) },
      Q11 |-> {
        O([name |-> S("D"), age |-> S("50")]) },
      Q12 |-> {
        O([me |-> O(Person("1") @@
                    [pet |-> O(Pet("Cat", "9") @@ [kind |-> S("cat")]),
                     toy |-> O(Pet("Toy", "5") @@ [kind |-> S("ball")])])]) },
      Q13 |-> {
        O([me |-> O(Person("1") @@ [addresses |-> L(<<
             O([city |-> S("Y"), lines |-> Nums(<<"c">>)]),
             O([__typename |-> S("Address"), city |-> S("X"), lines |-> Nums(<<"a">>)]),
             Null,
             O(Pet("House", "7") @@ [city |-> S("Z")])>>)])]),
        O([me |-> O(Person("1") @@ [addresses |-> L(<<
             O([__typename |-> S("Address"), lines |-> Nums(<<"b">>)]),
             O([__typename |-> S("Address"), lines |-> Nums(<<"d">>)])>>)])]) },
      Q14 |-> {
        O([me |-> O(Person("1") @@ [name |-> S("A"), friend |->
             O(Person("2") @@ [name |-> S("B"), friend |->
               O(Person("1") @@ [name |-> S("A"), friend |->
                 O(Person("2") @@ [name |-> S("B")])])])])]),
        O([me |-> O(Person("1") @@ [name |-> S("A"), friend |->
             O(Person("2") @@ [name |-> S("B"), bad |-> S("x"), friend |->
               O(Person("1") @@ [name |-> S("A"), friend |->
                 O(Person("2") @@ [name |-> S("B")])])])])]) },
      Q15 |-> {
        O([me |-> O(Person("1") @@ [name |-> S("A")])]) },
      Q16 |-> {
        O([me |-> O(Person("1"))]) } ]

\* the dataId a query is written to: ROOT_QUERY, or an entity key for a
\* query over the fields of one entity
Targets(query) ==
    IF query = "Q11" THEN {"ROOT_QUERY", "Person:1"} ELSE {"ROOT_QUERY"}

\* the documents written by the one-action writes; Q16, whose walk does not
\* return, is written step by step only (StepSpec)
Queries == DOMAIN Documents \ {"Q16"}

(***************************************************************************)
(* The state machine.  store is the caller's store and retained its        *)
(* retain counts; writes is the history of the top-level calls made        *)
(* (inputs, store before, log).                                            *)
(***************************************************************************)
\* no step-by-step call has been made
Idle == [status |-> "idle", query |-> "", result |-> Undefined, stack |-> <<>>,
         written |-> {}, why |-> "", skipped |-> FALSE]

Init ==
    /\ store = EmptyStore
    /\ retained = [k \in {} |-> 0]
    /\ writes = <<>>
    /\ possibleTypes \in BOOLEAN
    /\ run = Idle

WriteRecord(query, result, dataId, before, fresh, w) ==
    [query |-> query, result |-> result, dataId |-> dataId, before |-> before,
     fresh |-> fresh, after |-> w.store, log |-> w.log, failed |-> w.failed,
     written |-> w.written]

\* a top-level write into the caller's store
WriteQuery ==
    /\ Len(writes) < MaxWrites
    /\ \E query \in Queries : \E result \in Results[query] :
       \E dataId \in Targets(query) :
         LET w == writeQueryToStore(query, result, dataId, store, NoVariables)
         IN  /\ store' = w.store
             /\ retained' = Retain(retained, dataId)
             /\ writes' = Append(writes,
                                 WriteRecord(query, result, dataId, store, FALSE, w))
    /\ UNCHANGED <<possibleTypes, run>>

\* a top-level write with no store given: defaultNormalizedCacheFactory()
\* makes the store, which the caller keeps from then on
WriteQueryNewStore ==
    /\ Len(writes) < MaxWrites
    /\ \E query \in Queries : \E result \in Results[query] :
       \E dataId \in Targets(query) :
         LET w == writeQueryToStore(query, result, dataId, EmptyStore, NoVariables)
         IN  /\ store' = w.store
             /\ retained' = Retain([k \in {} |-> 0], dataId)
             /\ writes' = Append(writes,
                                 WriteRecord(query, result, dataId, EmptyStore, TRUE, w))
    /\ UNCHANGED <<possibleTypes, run>>

Next == WriteQuery \/ WriteQueryNewStore

Spec == Init /\ [][Next]_vars

(***************************************************************************)
(* The recursion of one top-level write, step by step.  run holds the call *)
(* stack of the write: a frame is a call of writeSelectionSetToStore       *)
(* ("writer"), of processSelectionSet ("select", i the selection the       *)
(* forEach is at) or of processFieldValue ("value", i the number of list   *)
(* elements mapped, or 1 once the nested call of an object has been        *)
(* made).  The store, the field maps and the merge overrides play no part  *)
(* in which calls are made, except through the stored type name, which is  *)
(* absent here (a new store); the walk of the overrides is a loop over a   *)
(* finite tree and is one step.  A call that would need more than          *)
(* MaxStack frames fails with the engine's RangeError.                     *)
(***************************************************************************)
Frame_(kind, dataId, result, selectionSet, i, typename) ==
    [kind |-> kind, dataId |-> dataId, result |-> result,
     selectionSet |-> selectionSet, i |-> i, typename |-> typename]

Top == run.stack[Len(run.stack)]
Running(kind) == run.status = "running" /\ run.stack # <<>> /\ Top.kind = kind

\* the call returns: its frame is popped
Pop(r) == [r EXCEPT !.stack = SubSeq(@, 1, Len(@) - 1)]

\* the caller's frame moves to position i and makes the call of frame
Call(r, i, frame) ==
    IF Len(r.stack) >= MaxStack
    THEN [r EXCEPT !.status = "failed", !.why = "RangeError", !.stack = <<>>]
    ELSE [r EXCEPT !.stack = Append([@ EXCEPT ![Len(@)].i = i], frame)]

\* Mutant of NextSelection: the loop stays at the same selection
SameSelection(i) == i

\* selectionSet.selections.forEach: on to the next selection
NextSelection(i) == i + 1

\* writeQueryToStore: the call of writeSelectionSetToStore for the target
StepBegin ==
    /\ run.status = "idle"
    /\ \E query \in DOMAIN Documents : \E result \in Results[query] :
         run' = [status |-> "running", query |-> query, result |-> result,
                 stack |-> <<Frame_("writer", "ROOT_QUERY", result,
                                    Documents[query].selectionSet, 0, Undefined)>>,
                 written |-> FreshWritten, why |-> "", skipped |-> FALSE]
    /\ UNCHANGED <<store, retained, writes, possibleTypes>>

\* if (sets.indexOf(selectionSet) >= 0) return store
StepWriterSkip ==
    /\ Running("writer") /\ Top.i = 0
    /\ AlreadyWritten(run.written, Top.dataId, Top.selectionSet)
    /\ run' = [Pop(run) EXCEPT !.skipped = TRUE]
    /\ UNCHANGED <<store, retained, writes, possibleTypes>>

\* sets.push(selectionSet); the call of processSelectionSet
StepWriterEnter ==
    /\ Running("writer") /\ Top.i = 0
    /\ ~AlreadyWritten(run.written, Top.dataId, Top.selectionSet)
    /\ run' = Call([run EXCEPT !.written = @ \cup {<<Top.dataId, Top.selectionSet>>}],
                   1,
                   Frame_("select", "", Top.result, Top.selectionSet, 1,
                          ResolveTypename(
                            [store |-> store,
                             fragmentMap |-> Documents[run.query].fragmentMap],
                            Top.dataId, Top.result, Top.selectionSet)))
    /\ UNCHANGED <<store, retained, writes, possibleTypes>>

\* a field of the entity has a merge function that throws
FrameThrows(frame) ==
    \E field \in DOMAIN frame.result.f :
      getFieldMergeFunction(
        ResolveTypename([store |-> store,
                         fragmentMap |-> Documents[run.query].fragmentMap],
                        frame.dataId, frame.result, frame.selectionSet),
        Leaf(field), Documents[run.query].defaults) = "boom"

\* walkWithMergeOverrides calls a merge function that throws
StepWriterThrows ==
    /\ Running("writer") /\ Top.i = 1
    /\ FrameThrows(Top)
    /\ run' = [run EXCEPT !.status = "failed", !.why = "merge", !.stack = <<>>]
    /\ UNCHANGED <<store, retained, writes, possibleTypes>>

\* walkWithMergeOverrides, store.merge, return store
StepWriterCommit ==
    /\ Running("writer") /\ Top.i = 1
    /\ ~FrameThrows(Top)
    /\ run' = Pop(run)
    /\ UNCHANGED <<store, retained, writes, possibleTypes>>

\* a selection that makes no call: excluded by its directive, a field
\* without a value, or a fragment that does not match
StepSelectionPassed ==
    /\ Running("select") /\ Top.i <= Len(SelectionSets[Top.selectionSet])
    /\ LET selection == SelectionSets[Top.selectionSet][Top.i]
           fragment == getFragmentFromSelection(selection,
                                                Documents[run.query].fragmentMap)
       IN  \/ ~Included(selection, Documents[run.query].defaults)
           \/ /\ isField(selection)
              /\ ~HasValue(GetProp(Top.result, resultKeyNameFromField(selection)))
           \/ /\ ~isField(selection) /\ fragment # Undefined
              /\ ~EntersFragment(fragment, Top.typename)
    /\ run' = [run EXCEPT !.stack[Len(run.stack)].i = NextSelection(Top.i)]
    /\ UNCHANGED <<store, retained, writes, possibleTypes>>

\* a field with a value: the call of processFieldValue
StepField ==
    /\ Running("select") /\ Top.i <= Len(SelectionSets[Top.selectionSet])
    /\ LET selection == SelectionSets[Top.selectionSet][Top.i]
           value == GetProp(Top.result, resultKeyNameFromField(selection))
       IN  /\ Included(selection, Documents[run.query].defaults)
           /\ isField(selection) /\ HasValue(value)
           /\ run' = Call(run, NextSelection(Top.i),
                          Frame_("value", "", value, selection.selectionSet, 0,
                                 Undefined))
    /\ UNCHANGED <<store, retained, writes, possibleTypes>>

\* a fragment that matches: the call of processSelectionSet on the same
\* result object with the selection set of the fragment
StepFragment ==
    /\ Running("select") /\ Top.i <= Len(SelectionSets[Top.selectionSet])
    /\ LET selection == SelectionSets[Top.selectionSet][Top.i]
           fragment == getFragmentFromSelection(selection,
                                                Documents[run.query].fragmentMap)
       IN  /\ Included(selection, Documents[run.query].defaults)
           /\ ~isField(selection) /\ fragment # Undefined
           /\ EntersFragment(fragment, Top.typename)
           /\ run' = Call(run, NextSelection(Top.i),
                          Frame_("select", "", Top.result, fragment.selectionSet, 1,
                                 Top.typename))
    /\ UNCHANGED <<store, retained, writes, possibleTypes>>

\* getFragmentFromSelection fails: no fragment of that name
StepFragmentUnknown ==
    /\ Running("select") /\ Top.i <= Len(SelectionSets[Top.selectionSet])
    /\ LET selection == SelectionSets[Top.selectionSet][Top.i]
       IN  /\ Included(selection, Documents[run.query].defaults)
           /\ ~isField(selection)
           /\ getFragmentFromSelection(selection, Documents[run.query].fragmentMap)
                = Undefined
    /\ run' = [run EXCEPT !.status = "failed", !.why = "fragment", !.stack = <<>>]
    /\ UNCHANGED <<store, retained, writes, possibleTypes>>

\* the forEach is over: return { result: mergedFields, mergeOverrides }
StepSelectionReturn ==
    /\ Running("select") /\ Top.i > Len(SelectionSets[Top.selectionSet])
    /\ run' = Pop(run)
    /\ UNCHANGED <<store, retained, writes, possibleTypes>>

\* if (!field.selectionSet || value === null) return { result: value }
StepValueLeaf ==
    /\ Running("value")
    /\ Top.selectionSet = NoSelectionSet \/ Top.result = Null
    /\ run' = Pop(run)
    /\ UNCHANGED <<store, retained, writes, possibleTypes>>

\* value.map: the call of processFieldValue for the next element
StepValueItem ==
    /\ Running("value")
    /\ Top.selectionSet # NoSelectionSet /\ isArray(Top.result)
    /\ Top.i < Len(Top.result.items)
    /\ run' = Call(run, Top.i + 1,
                   Frame_("value", "", Top.result.items[Top.i + 1],
                          Top.selectionSet, 0, Undefined))
    /\ UNCHANGED <<store, retained, writes, possibleTypes>>

\* if (typeof dataId === 'string') the call of writeSelectionSetToStore
StepValueEntity ==
    /\ Running("value") /\ Top.i = 0
    /\ Top.selectionSet # NoSelectionSet /\ isObject(Top.result)
    /\ isString(identify(Top.result, Top.selectionSet,
                         Documents[run.query].fragmentMap))
    /\ run' = Call(run, 1,
                   Frame_("writer",
                          identify(Top.result, Top.selectionSet,
                                   Documents[run.query].fragmentMap).v,
                          Top.result, Top.selectionSet, 0, Undefined))
    /\ UNCHANGED <<store, retained, writes, possibleTypes>>

\* otherwise the call of processSelectionSet for the embedded object
StepValueEmbedded ==
    /\ Running("value") /\ Top.i = 0
    /\ Top.selectionSet # NoSelectionSet /\ isObject(Top.result)
    /\ ~isString(identify(Top.result, Top.selectionSet,
                          Documents[run.query].fragmentMap))
    /\ run' = Call(run, 1,
                   Frame_("select", "", Top.result, Top.selectionSet, 1,
                          getTypenameFromResult(Top.result, Top.selectionSet,
                                                Documents[run.query].fragmentMap)))
    /\ UNCHANGED <<store, retained, writes, possibleTypes>>

\* processFieldValue returns: the list is mapped, or the nested call of an
\* object has returned
StepValueReturn ==
    /\ Running("value")
    /\ Top.selectionSet # NoSelectionSet
    /\ \/ isArray(Top.result) /\ Top.i = Len(Top.result.items)
       \/ isObject(Top.result) /\ Top.i = 1
    /\ run' = Pop(run)
    /\ UNCHANGED <<store, retained, writes, possibleTypes>>

\* writeQueryToStore returns the store
StepReturn ==
    /\ run.status = "running" /\ run.stack = <<>>
    /\ run' = [run EXCEPT !.status = "returned"]
    /\ UNCHANGED <<store, retained, writes, possibleTypes>>

Step ==
    \/ StepWriterSkip \/ StepWriterEnter \/ StepWriterThrows \/ StepWriterCommit
    \/ StepSelectionPassed \/ StepField \/ StepFragment \/ StepFragmentUnknown
    \/ StepSelectionReturn
    \/ StepValueLeaf \/ StepValueItem \/ StepValueEntity \/ StepValueEmbedded
    \/ StepValueReturn
    \/ StepReturn

StepNext == StepBegin \/ Step

\* the write is one synchronous call: once made, it keeps running
StepSpec == Init /\ [][StepNext]_vars /\ WF_vars(Step)

(***************************************************************************)
(* Properties.  Helpers over the log of a top-level write.                 *)
(***************************************************************************)
EventsOf(w, kinds) == {i \in DOMAIN w.log : w.log[i].e \in kinds}

Pair(event) == <<event.dataId, event.selectionSet>>

\* the calls of the selection-set writer (run or skipped) that are the first
\* of the write for their (dataId, selectionSet) pair
FirstVisits(w) ==
    {i \in EventsOf(w, {"write", "skip"}) :
       \A j \in EventsOf(w, {"write", "skip"}) :
          j < i => Pair(w.log[j]) # Pair(w.log[i])}

\* the variables of a write: no caller passes any, so they are the default
\* values the documents declare (every $flag has the same default)
DeclaredDefaults == [flag |-> TRUE]

\* the selections of a selection set that are included fields with a value
\* in the result object
FieldsOf(result, selectionSet) ==
    {i \in DOMAIN SelectionSets[selectionSet] :
       LET selection == SelectionSets[selectionSet][i]
       IN  /\ isField(selection)
           /\ shouldInclude(selection, DeclaredDefaults)
           /\ GetProp(result, resultKeyNameFromField(selection)) # Undefined}

SlotOf(selectionSet, i) ==
    getStoreFieldName(Undefined, SelectionSets[selectionSet][i], NoVariables)

ValueOf(result, selectionSet, i) ==
    GetProp(result, resultKeyNameFromField(SelectionSets[selectionSet][i]))

Record(st, dataId) == StoreGet(st, dataId)

WithoutRoot(st) == [k \in DOMAIN st \ {"ROOT_QUERY"} |-> st[k]]

Without(items, j) == SubSeq(items, 1, j - 1) \o SubSeq(items, j + 1, Len(items))

\* the list items of a result whose entity key an earlier item already has
RepeatedItems(items) ==
    {j \in DOMAIN items :
       /\ items[j] # Null
       /\ \E i \in 1..(j - 1) :
            /\ items[i] # Null
            /\ isString(identify(items[i], "Q3_people", NoFragments))
            /\ identify(items[i], "Q3_people", NoFragments)
                 = identify(items[j], "Q3_people", NoFragments)}

\* C1: within one top-level write a (dataId, selectionSet) pair is processed
\* and committed at most once; a repeated call for a recorded pair returns
\* at once (no store read, no merge function, no store.merge: the next thing
\* that happens is its caller going on), and the entity records at the end
\* are those of the same write with the repeated object left out.
C1_IdempotentReentry ==
    \A n \in DOMAIN writes :
      LET w == writes[n]
          log == w.log
      IN  /\ \A i, j \in EventsOf(w, {"write"}) :
                i < j => Pair(log[i]) # Pair(log[j])
          /\ \A i, j \in EventsOf(w, {"store.merge"}) :
                i < j => Pair(log[i]) # Pair(log[j])
          /\ \A j \in EventsOf(w, {"skip"}) :
                /\ \E i \in EventsOf(w, {"write"}) :
                     i < j /\ Pair(log[i]) = Pair(log[j])
                /\ j < Len(log)
                /\ log[j + 1].e \in {"field", "write", "skip"}
                /\ log[j + 1].e = "field" => log[j + 1].sub = log[j].selectionSet
                /\ log[j + 1].e # "field" => log[j + 1].selectionSet = log[j].selectionSet
          /\ (w.query = "Q3" /\ ~w.failed) =>
                \A j \in RepeatedItems(w.result.f.people.items) :
                   WithoutRoot(w.after) =
                     WithoutRoot(writeQueryToStore(
                        "Q3", O([people |-> L(Without(w.result.f.people.items, j))]),
                        w.dataId, w.before, NoVariables).store)

\* a write in which a repeated pair was skipped although the repeated object
\* carries other data than the first
C1_Witness ==
    \E n \in DOMAIN writes :
      LET w == writes[n] IN
      /\ ~w.failed
      /\ \E j \in EventsOf(w, {"skip"}) : \E i \in EventsOf(w, {"write"}) :
           /\ Pair(w.log[i]) = Pair(w.log[j])
           /\ w.log[i].result # w.log[j].result

\* the entity keys a write reached through policies.identify
EntityKeys(w) ==
    {w.log[i].dataId : i \in FirstVisits(w)} \ {w.dataId}

\* the values an object supplies for a slot through the fields of a
\* selection set and of the fragments spread in it
RECURSIVE ValuesThrough(_, _, _, _)
ValuesThrough(result, selectionSet, fragmentMap, slot) ==
    UNION {LET selection == SelectionSets[selectionSet][i]
           IN  IF isField(selection)
               THEN IF /\ SlotOf(selectionSet, i) = slot
                       /\ ValueOf(result, selectionSet, i) # Undefined
                    THEN {ValueOf(result, selectionSet, i)}
                    ELSE {}
               ELSE IF getFragmentFromSelection(selection, fragmentMap) = Undefined
               THEN {}
               ELSE ValuesThrough(
                      result,
                      getFragmentFromSelection(selection, fragmentMap).selectionSet,
                      fragmentMap, slot) :
           i \in DOMAIN SelectionSets[selectionSet]}

\* the values the processed objects of writes a and b supply for a slot of K
Supplied(ws, K, slot) ==
    UNION {UNION {ValuesThrough(w.log[i].result, w.log[i].selectionSet,
                                Documents[w.query].fragmentMap, slot) :
                  i \in {i \in FirstVisits(w) : w.log[i].dataId = K}} :
           w \in ws}

Slots(ws, K) ==
    UNION {UNION {{SlotOf(w.log[i].selectionSet, f) :
                     f \in FieldsOf(w.log[i].result, w.log[i].selectionSet)} :
                  i \in {i \in FirstVisits(w) : w.log[i].dataId = K}} :
           w \in ws}

\* C2: after two consecutive top-level writes with different root queries
\* that both reach an object identified as K, the store holds one record
\* for K (no other record carries K's identity), and that record has a slot
\* for every field either query wrote for K, holding the written value
\* when the two results do not conflict on it.
C2_IdentityConvergence ==
    \A n \in DOMAIN writes :
      n > 1 =>
      LET a == writes[n - 1]
          b == writes[n]
      IN  (a.query # b.query /\ ~a.failed /\ ~b.failed /\ b.before = a.after) =>
            \A K \in EntityKeys(a) \cap EntityKeys(b) :
               /\ K \in DOMAIN b.after
               /\ {k \in DOMAIN b.after :
                     identify(b.after[k], NoSelectionSet, NoFragments) = S(K)} = {K}
               /\ \A slot \in Slots({a, b}, K) :
                     /\ slot \in DOMAIN b.after[K].f
                     /\ \A v \in Supplied({a, b}, K, slot) :
                          (isString(v) /\ Supplied({a, b}, K, slot) = {v})
                            => b.after[K].f[slot] = v

\* two different root queries reached the same entity, each with a field
\* the other did not supply
C2_Witness ==
    \E n \in DOMAIN writes :
      /\ n > 1
      /\ LET a == writes[n - 1]
             b == writes[n]
         IN  /\ a.query # b.query /\ ~a.failed /\ ~b.failed /\ b.before = a.after
             /\ \E K \in EntityKeys(a) \cap EntityKeys(b) :
                  /\ Slots({a}, K) \ Slots({b}, K) # {}
                  /\ Slots({b}, K) \ Slots({a}, K) # {}

\* C3 as claimed: after a write that returns, the record under K has a slot
\* for every field of every result object identified as K, however the
\* object was reached.
C3_AllObjectsMerged ==
    \A n \in DOMAIN writes :
      LET w == writes[n] IN
      ~w.failed =>
        \A i \in EventsOf(w, {"write", "skip"}) :
          \A f \in FieldsOf(w.log[i].result, w.log[i].selectionSet) :
            SlotOf(w.log[i].selectionSet, f)
              \in DOMAIN Record(w.after, w.log[i].dataId).f

\* C3 (amended): after a write that returns, the record under K has a slot
\* for every field of every result object identified as K that is the
\* first the write reaches through its (K, selection set) pair; an object
\* reached through a pair already recorded in written adds nothing.
C3_WrittenObjectsMerged ==
    \A n \in DOMAIN writes :
      LET w == writes[n] IN
      ~w.failed =>
        \A i \in FirstVisits(w) :
          /\ w.log[i].dataId \in DOMAIN w.after
          /\ \A f \in FieldsOf(w.log[i].result, w.log[i].selectionSet) :
               SlotOf(w.log[i].selectionSet, f)
                 \in DOMAIN Record(w.after, w.log[i].dataId).f

\* one write reached the same entity through two selection sets, each
\* supplying a field the other lacks
C3_Witness ==
    \E n \in DOMAIN writes :
      LET w == writes[n] IN
      /\ ~w.failed
      /\ \E i, j \in FirstVisits(w) :
           /\ i < j
           /\ w.log[i].dataId = w.log[j].dataId
           /\ w.log[i].selectionSet # w.log[j].selectionSet
           /\ \E f \in FieldsOf(w.log[i].result, w.log[i].selectionSet) :
                ValueOf(w.log[j].result, w.log[i].selectionSet, f) = Undefined

\* the value at a path <<dataId, name, ...>> of a store
RECURSIVE ValueAt(_, _)
ValueAt(value, path) ==
    IF path = <<>> THEN value ELSE ValueAt(GetProp(value, Head(path)), Tail(path))

StoredAt(st, path) == ValueAt(Record(st, Head(path)), Tail(path))

IsStrictPrefix(p, q) == Len(p) < Len(q) /\ SubSeq(q, 1, Len(p)) = p

\* the merge-function invocations of a write that are the last of the write
\* for their position
LastMergeFns(w) ==
    {i \in EventsOf(w, {"mergeFn"}) :
       \A j \in EventsOf(w, {"mergeFn"}) : w.log[j].path = w.log[i].path => j <= i}

C5_ExistingIsPreWrite ==
    \A n \in DOMAIN writes :
      LET w == writes[n] IN
      \A i \in EventsOf(w, {"mergeFn"}) :
        w.log[i].existing = StoredAt(w.before, w.log[i].path)

\* the events of the walk (from its store.get to its end) that holds event j
WalkOf(w, j) ==
    LET start == CHOOSE g \in EventsOf(w, {"get"}) :
                   g < j /\ \A h \in EventsOf(w, {"get"}) : h < j => h <= g
    IN  {i \in EventsOf(w, {"mergeFn"}) :
           /\ i > start
           /\ \A h \in EventsOf(w, {"get"}) : h > start => (i < h <=> j < h)}

\* C6: when a merge function runs at a position that has nested overrides,
\* every merge function below that position has already run in this walk,
\* and the incoming argument holds, at each child position with a merge
\* function, the result that function returned.
C6_ChildrenFirst ==
    \A n \in DOMAIN writes :
      LET w == writes[n] IN
      \A j \in EventsOf(w, {"mergeFn"}) :
        w.log[j].child # Undefined =>
          LET below == {i \in WalkOf(w, j) :
                          IsStrictPrefix(w.log[j].path, w.log[i].path)}
          IN  /\ below # {}
              /\ \A i \in below :
                   /\ i < j
                   /\ Len(w.log[i].path) = Len(w.log[j].path) + 1 =>
                        GetProp(w.log[j].incoming, w.log[i].path[Len(w.log[i].path)])
                          = w.log[i].out

\* a parent merge function ran after a child merge function that changed
\* the child's value
C6_Witness ==
    \E n \in DOMAIN writes :
      LET w == writes[n] IN
      \E j \in EventsOf(w, {"mergeFn"}) :
        /\ w.log[j].child # Undefined
        /\ \E i \in WalkOf(w, j) :
             /\ IsStrictPrefix(w.log[j].path, w.log[i].path)
             /\ w.log[i].out # w.log[i].incoming

\* the entity keys committed by a write
Committed(w) == {w.log[i].dataId : i \in EventsOf(w, {"store.merge"})}

\* C7: when a write fails, the throw is the last thing it does: the call of
\* the target dataId and every other writer call that has not committed by
\* then never commit, so a record with no completed call is as before the
\* write; and every call completed before the failure has its record in
\* the store with the slots it committed.
C7_PartialCommit ==
    \A n \in DOMAIN writes :
      LET w == writes[n]
          log == w.log
      IN  w.failed =>
            /\ log[Len(log)].e = "throw"
            /\ w.dataId \notin Committed(w)
            /\ \A K \in (DOMAIN w.before \cup DOMAIN w.after) \ Committed(w) :
                  Record(w.after, K) = Record(w.before, K)
            /\ \A i \in EventsOf(w, {"store.merge"}) :
                  /\ log[i].dataId \in DOMAIN w.after
                  /\ DOMAIN log[i].incoming.f \subseteq DOMAIN w.after[log[i].dataId].f
            /\ \A i \in EventsOf(w, {"write"}) :
                  Cardinality({j \in EventsOf(w, {"store.merge"}) :
                                 Pair(log[j]) = Pair(log[i])}) <= 1

\* a write failed inside a nested entity after a sibling entity had been
\* committed, with two enclosing writer calls in progress
C7_Witness ==
    \E n \in DOMAIN writes :
      LET w == writes[n] IN
      /\ w.failed
      /\ Committed(w) # {}
      /\ Cardinality({i \in EventsOf(w, {"write"}) :
                        w.log[i].dataId \notin Committed(w)}) >= 3
      /\ \E K \in Committed(w) : K \notin DOMAIN w.before

\* the latest fragment event before event j for selection set body
FragmentBefore(w, j, body) ==
    {i \in EventsOf(w, {"fragment"}) :
       /\ i < j
       /\ w.log[i].selectionSet = body
       /\ \A h \in EventsOf(w, {"fragment"}) :
            (h < j /\ w.log[h].selectionSet = body) => h <= i}

FragmentBodies(w) ==
    {w.log[i].selectionSet : i \in EventsOf(w, {"fragment"})}

\* the selection sets nested directly in the fields of selection set body
NestedIn(body) ==
    {SelectionSets[body][i].selectionSet : i \in DOMAIN SelectionSets[body]}
      \ {NoSelectionSet}

Matches(event) ==
    isString(event.typename) /\ event.typeCondition = event.typename.v

\* C8: a field is added to the field map, a missing-field diagnostic is
\* emitted or a nested entity is written from the selection set of a
\* fragment only if the fragment, when last met, matched the type name.
C8_FragmentGating ==
    \A n \in DOMAIN writes :
      LET w == writes[n] IN
      /\ \A j \in EventsOf(w, {"field", "warn"}) :
           w.log[j].selectionSet \in FragmentBodies(w) =>
             \E i \in FragmentBefore(w, j, w.log[j].selectionSet) : Matches(w.log[i])
      /\ \A j \in EventsOf(w, {"write", "skip"}) :
           \A body \in FragmentBodies(w) :
             w.log[j].selectionSet \in NestedIn(body) =>
               \E i \in FragmentBefore(w, j, body) : Matches(w.log[i])
      /\ \A i \in EventsOf(w, {"fragment"}) :
           (~Matches(w.log[i]) /\ i < Len(w.log)) =>
             /\ w.log[i + 1].e \in {"field", "warn"} =>
                  w.log[i + 1].selectionSet # w.log[i].selectionSet
             /\ w.log[i + 1].e \in {"write", "skip"} =>
                  w.log[i + 1].selectionSet \notin NestedIn(w.log[i].selectionSet)

\* a fragment on Dog was met for a Cat whose result object carries values
\* for the fragment's fields
C8_Witness ==
    \E n \in DOMAIN writes :
      LET w == writes[n] IN
      \E i \in EventsOf(w, {"fragment"}) : \E j \in EventsOf(w, {"write"}) :
        /\ j < i
        /\ w.log[i].typeCondition = "Dog"
        /\ w.log[i].typename = S("Cat")
        /\ FieldsOf(w.log[j].result, w.log[i].selectionSet) # {}
        /\ ~w.failed

\* C9: a field with a nested selection set whose value is an object holds a
\* Reference to K, and the selection-set writer has been called for K with
\* that object and the nested selection set, when policies.identify yields
\* K; otherwise it holds an embedded object and the writer is never called
\* for that object.
C9_Normalization ==
    \A n \in DOMAIN writes :
      LET w == writes[n]
          log == w.log
      IN  \A j \in EventsOf(w, {"field"}) :
            (log[j].sub # NoSelectionSet /\ isObject(log[j].input)) =>
              LET K == identify(log[j].input, log[j].sub,
                                Documents[w.query].fragmentMap)
                  called == {i \in EventsOf(w, {"write", "skip"}) :
                               /\ log[i].result = log[j].input
                               /\ log[i].selectionSet = log[j].sub}
              IN  IF isString(K)
                  THEN /\ log[j].value = makeReference(K.v)
                       /\ \E i \in called : i < j /\ log[i].dataId = K.v
                  ELSE /\ isObject(log[j].value)
                       /\ called = {}

\* one write stored a Reference for an identified object, and one stored an
\* embedded object for an object without identity
C9_Witness ==
    /\ \E n \in DOMAIN writes : \E j \in EventsOf(writes[n], {"field"}) :
         /\ writes[n].log[j].sub # NoSelectionSet
         /\ writes[n].log[j].value.t = "ref"
    /\ \E n \in DOMAIN writes : \E j \in EventsOf(writes[n], {"field"}) :
         /\ writes[n].log[j].sub # NoSelectionSet
         /\ isObject(writes[n].log[j].input)
         /\ isObject(writes[n].log[j].value)

\* the slots the selections of a selection set, fragments included, can
\* fill from a result object
RECURSIVE SlotsThrough(_, _, _)
SlotsThrough(result, selectionSet, fragmentMap) ==
    UNION {LET selection == SelectionSets[selectionSet][i]
           IN  IF isField(selection)
               THEN IF GetProp(result, resultKeyNameFromField(selection)) # Undefined
                    THEN {getStoreFieldName(Undefined, selection, NoVariables)}
                    ELSE {}
               ELSE IF getFragmentFromSelection(selection, fragmentMap) = Undefined
               THEN {}
               ELSE SlotsThrough(
                      result,
                      getFragmentFromSelection(selection, fragmentMap).selectionSet,
                      fragmentMap) :
           i \in DOMAIN SelectionSets[selectionSet]}

\* the slots of K for which the result of a write supplies a value: those
\* of its selections, and __typename when the result object carries one
SuppliedSlots(w, K) ==
    UNION {SlotsThrough(w.log[i].result, w.log[i].selectionSet,
                        Documents[w.query].fragmentMap)
             \cup (IF isString(GetProp(w.log[i].result, "__typename"))
                   THEN {"__typename"} ELSE {}) :
           i \in {i \in EventsOf(w, {"write", "skip"}) : w.log[i].dataId = K}}

\* C10: a write leaves every slot of every stored record for which its
\* result supplies no value exactly as it was.
C10_AbsentFieldsUntouched ==
    \A n \in DOMAIN writes :
      LET w == writes[n] IN
      \A K \in DOMAIN w.before :
        \A slot \in DOMAIN w.before[K].f \ SuppliedSlots(w, K) :
          /\ K \in DOMAIN w.after
          /\ slot \in DOMAIN w.after[K].f
          /\ w.after[K].f[slot] = w.before[K].f[slot]

\* a later write whose result lacks the pet of an entity that has a stored
\* pet Reference changed another slot of the entity
C10_Witness ==
    \E n \in DOMAIN writes :
      LET w == writes[n] IN
      \E K \in DOMAIN w.before :
        /\ "pet" \in DOMAIN w.before[K].f
        /\ w.before[K].f["pet"].t = "ref"
        /\ "pet" \notin SuppliedSlots(w, K)
        /\ \E slot \in SuppliedSlots(w, K) :
             /\ slot \in DOMAIN w.before[K].f
             /\ w.after[K].f[slot] # w.before[K].f[slot]

\* the fields with arguments a write has written: for each writer call that
\* ran, the entity key, field name, argument, storage key and value
ArgWrites(w) ==
    UNION {{[K |-> w.log[i].dataId,
             name |-> SelectionSets[w.log[i].selectionSet][f].name,
             arg |-> SelectionSets[w.log[i].selectionSet][f].arg,
             slot |-> SlotOf(w.log[i].selectionSet, f),
             value |-> ValueOf(w.log[i].result, w.log[i].selectionSet, f)] :
              f \in {f \in FieldsOf(w.log[i].result, w.log[i].selectionSet) :
                       SelectionSets[w.log[i].selectionSet][f].arg # ""}} :
           i \in EventsOf(w, {"write"})}

\* C11: every field value goes to the slot policies.getStoreFieldName
\* returns; two fields of one entity with the same name and different
\* arguments written by one write fill two different slots that hold their
\* own values, and a field written by a later write with other arguments
\* leaves the slot of the earlier write as it was.
C11_ArgumentSlots ==
    \A n \in DOMAIN writes :
      LET w == writes[n] IN
      /\ \A j \in EventsOf(w, {"field"}) :
            w.log[j].name =
              getStoreFieldName(w.log[j].typename,
                                SelectionSets[w.log[j].selectionSet][w.log[j].i],
                                DeclaredDefaults)
      /\ ~w.failed =>
            \A x, y \in ArgWrites(w) :
              (x.K = y.K /\ x.name = y.name /\ x.arg # y.arg) =>
                /\ x.slot # y.slot
                /\ {x.slot, y.slot} \subseteq DOMAIN w.after[x.K].f
                /\ w.after[x.K].f[x.slot] = x.value
                /\ w.after[x.K].f[y.slot] = y.value
      /\ (n > 1 /\ ~w.failed /\ ~writes[n - 1].failed
            /\ w.before = writes[n - 1].after) =>
            \A x \in ArgWrites(writes[n - 1]) : \A y \in ArgWrites(w) :
              (/\ x.K = y.K /\ x.name = y.name /\ x.arg # y.arg
               /\ \A z \in ArgWrites(w) : z.K = x.K => z.slot # x.slot) =>
                /\ x.slot # y.slot
                /\ {x.slot, y.slot} \subseteq DOMAIN w.after[x.K].f
                /\ w.after[x.K].f[x.slot] = w.before[x.K].f[x.slot]
                /\ w.after[x.K].f[y.slot] = y.value

\* one write wrote pic with two argument sets under aliases, and the next
\* write wrote pic with one of them again, changing its value
C11_Witness ==
    \E n \in DOMAIN writes :
      /\ n > 1
      /\ ~writes[n].failed /\ ~writes[n - 1].failed
      /\ writes[n].before = writes[n - 1].after
      /\ \E x, y \in ArgWrites(writes[n - 1]) :
           /\ x.K = y.K /\ x.name = y.name /\ x.arg # y.arg
           /\ \E z \in ArgWrites(writes[n]) :
                /\ z.K = x.K /\ z.slot = y.slot /\ z.value # y.value
                /\ \A u \in ArgWrites(writes[n]) : u.slot # x.slot
                /\ writes[n].after[x.K].f[x.slot] = x.value

\* the store after the first i events of a write: the store before the
\* write with the store.merge calls among them applied
RECURSIVE StoreAt(_, _)
StoreAt(w, i) ==
    IF i = 0 THEN w.before
    ELSE IF w.log[i].e = "store.merge"
    THEN StoreMerge(StoreAt(w, i - 1), w.log[i].dataId, w.log[i].incoming)
    ELSE StoreAt(w, i - 1)

\* the latest writer call before event j that satisfies Cond
LatestWrite(w, j, Cond(_)) ==
    {i \in EventsOf(w, {"write"}) :
       /\ i < j /\ Cond(w.log[i])
       /\ \A h \in EventsOf(w, {"write"}) : (h < j /\ Cond(w.log[h])) => h <= i}

\* the type name of the first source that has one
FirstTypename(fromResult, fromStore, fromPolicies) ==
    IF isString(fromResult) THEN fromResult
    ELSE IF isString(fromStore) THEN fromStore
    ELSE IF isString(fromPolicies) THEN fromPolicies
    ELSE Undefined

\* C12: the type name of a call of the selection-set writer is the one on
\* the result object, else the __typename stored under the entity key when
\* the call is made, else the default of the key, else absent; it is the
\* type name its fields and fragments are processed with, and the
\* __typename of the field map it commits.
C12_TypenameOrder ==
    \A n \in DOMAIN writes :
      LET w == writes[n]
          log == w.log
      IN  /\ \A i \in EventsOf(w, {"write"}) :
                log[i].typename =
                  FirstTypename(
                    GetProp(log[i].result, "__typename"),
                    GetProp(Record(StoreAt(w, i - 1), log[i].dataId), "__typename"),
                    rootTypenamesById(log[i].dataId))
          /\ \A j \in EventsOf(w, {"field"}) :
                \A i \in LatestWrite(w, j, LAMBDA ev : ev.selectionSet = log[j].selectionSet) :
                   log[j].typename = log[i].typename
          /\ \A j \in EventsOf(w, {"fragment"}) :
                \A i \in LatestWrite(w, j, LAMBDA ev : ev.result = log[j].result) :
                   log[j].typename = log[i].typename
          /\ \A j \in EventsOf(w, {"store.merge"}) :
                \A i \in LatestWrite(w, j, LAMBDA ev : Pair(ev) = Pair(log[j])) :
                   IF isString(log[i].typename)
                   THEN GetProp(log[j].incoming, "__typename") = log[i].typename
                   ELSE GetProp(log[j].incoming, "__typename") = Undefined

\* a writer call whose result object has no type name found a stored type
\* name that is not the default of the key, and met a fragment
C12_Witness ==
    \E n \in DOMAIN writes :
      LET w == writes[n] IN
      \E i \in EventsOf(w, {"write"}) :
        /\ ~isString(GetProp(w.log[i].result, "__typename"))
        /\ isString(GetProp(Record(StoreAt(w, i - 1), w.log[i].dataId), "__typename"))
        /\ isString(rootTypenamesById(w.log[i].dataId))
        /\ GetProp(Record(StoreAt(w, i - 1), w.log[i].dataId), "__typename")
             # rootTypenamesById(w.log[i].dataId)
        /\ \E j \in EventsOf(w, {"fragment"}) : w.log[j].result = w.log[i].result

\* the (result object, selection set) pairs a write has handed to
\* processSelectionSet: those of the writer calls, of the matching
\* fragments, and of the objects (or list items) that were embedded
Processed(w) ==
    {<<w.log[i].result, w.log[i].selectionSet>> : i \in EventsOf(w, {"write"})}
    \cup {<<w.log[i].result, w.log[i].selectionSet>> :
            i \in {i \in EventsOf(w, {"fragment"}) : Matches(w.log[i])}}
    \cup {<<w.log[j].input, w.log[j].sub>> :
            j \in {j \in EventsOf(w, {"field"}) :
                     w.log[j].sub # NoSelectionSet /\ isObject(w.log[j].value)}}
    \cup UNION {{<<w.log[j].input.items[k], w.log[j].sub>> :
                   k \in {k \in DOMAIN w.log[j].input.items :
                            isObject(w.log[j].value.items[k])}} :
                j \in {j \in EventsOf(w, {"field"}) :
                         w.log[j].sub # NoSelectionSet /\ isArray(w.log[j].input)}}

\* the included fields of a selection set the result object has no value for
Missing(result, selectionSet) ==
    {f \in DOMAIN SelectionSets[selectionSet] :
       LET selection == SelectionSets[selectionSet][f]
       IN  /\ isField(selection)
           /\ shouldInclude(selection, DeclaredDefaults)
           /\ GetProp(result, resultKeyNameFromField(selection)) = Undefined}

\* strict possible-types checking is on and the field has neither a defer
\* nor a client directive
ShouldWarn(selection) ==
    possibleTypes /\ selection.directive # "defer" /\ selection.directive # "client"

WarnedFor(w, result, selectionSet, f) ==
    \E j \in EventsOf(w, {"warn"}) :
      /\ w.log[j].selectionSet = selectionSet
      /\ w.log[j].result = result
      /\ w.log[j].name = resultKeyNameFromField(SelectionSets[selectionSet][f])

\* C13: a field with no value in the result object is never processed and
\* gets no slot in the committed field map; the writer call it belongs to
\* still commits every field that has a value; the diagnostic is emitted
\* for it exactly when possible-types checking is on and the field has
\* neither a defer nor a client directive; and a write fails only by a
\* throwing merge function or an unknown fragment.
C13_MissingFieldsNonFatal ==
    \A n \in DOMAIN writes :
      LET w == writes[n]
          log == w.log
      IN  /\ \A j \in EventsOf(w, {"field"}) : log[j].input # Undefined
          /\ \A j \in EventsOf(w, {"warn"}) :
                \E f \in Missing(log[j].result, log[j].selectionSet) :
                  /\ resultKeyNameFromField(SelectionSets[log[j].selectionSet][f])
                       = log[j].name
                  /\ ShouldWarn(SelectionSets[log[j].selectionSet][f])
          /\ \A j \in EventsOf(w, {"store.merge"}) :
                \A i \in LatestWrite(w, j, LAMBDA ev : Pair(ev) = Pair(log[j])) :
                  /\ DOMAIN log[j].incoming.f \subseteq
                       {"__typename"} \cup SlotsThrough(log[i].result, log[i].selectionSet,
                                                        Documents[w.query].fragmentMap)
                  /\ \A f \in FieldsOf(log[i].result, log[i].selectionSet) :
                       SlotOf(log[i].selectionSet, f) \in DOMAIN log[j].incoming.f
          /\ \A j \in EventsOf(w, {"throw"}) : log[j].what \in {"boom", "Missing"}
          /\ ~w.failed =>
                /\ \A x \in Processed(w) : \A f \in Missing(x[1], x[2]) :
                      WarnedFor(w, x[1], x[2], f) <=> ShouldWarn(SelectionSets[x[2]][f])
                /\ \A i \in EventsOf(w, {"write"}) :
                      \E j \in EventsOf(w, {"store.merge"}) :
                        j > i /\ Pair(log[j]) = Pair(log[i])

\* with possible-types checking on, a writer call whose result object lacks
\* a field marked client, a field marked defer and a plain field committed
\* the field it had a value for, and warned about the plain field
C13_Witness ==
    /\ possibleTypes
    /\ \E n \in DOMAIN writes :
         LET w == writes[n] IN
         /\ ~w.failed
         /\ \E i \in EventsOf(w, {"write"}) :
              /\ \E f, g, h \in Missing(w.log[i].result, w.log[i].selectionSet) :
                   /\ SelectionSets[w.log[i].selectionSet][f].directive = "client"
                   /\ SelectionSets[w.log[i].selectionSet][g].directive = "defer"
                   /\ WarnedFor(w, w.log[i].result, w.log[i].selectionSet, h)
              /\ \E f \in FieldsOf(w.log[i].result, w.log[i].selectionSet) :
                   /\ SelectionSets[w.log[i].selectionSet][f].arg # ""
                   /\ SlotOf(w.log[i].selectionSet, f) \in DOMAIN w.after[w.log[i].dataId].f

\* the top-level writes made to the caller's present store: those from the
\* last write that created a store on
OnThisStore ==
    {n \in DOMAIN writes : \A m \in DOMAIN writes : writes[m].fresh => m <= n}

\* C14: a top-level write calls store.retain once, for its target dataId,
\* before anything else it does to the store, so before every store.merge;
\* the retain count of a key is the number of top-level writes made to the
\* store with that key as target, and a key that was only reached while
\* walking a result has never been retained.
C14_RootRetention ==
    /\ \A n \in DOMAIN writes :
         LET w == writes[n] IN
         /\ EventsOf(w, {"retain"}) = {1}
         /\ w.log[1].dataId = w.dataId
         /\ \A j \in EventsOf(w, {"store.merge"}) : j > 1
    /\ DOMAIN retained = {writes[n].dataId : n \in OnThisStore}
    /\ \A k \in DOMAIN retained :
         retained[k] = Cardinality({n \in OnThisStore : writes[n].dataId = k})

\* two top-level writes to ROOT_QUERY of one store, which also committed an
\* entity found in a result
C14_Witness ==
    /\ Cardinality({n \in OnThisStore : writes[n].dataId = "ROOT_QUERY"}) = 2
    /\ \E n \in OnThisStore : Committed(writes[n]) \ DOMAIN retained # {}

\* C15: the written table of a top-level write holds the pairs of its own
\* writer calls only, so the first call of a write for a pair is never
\* skipped, whatever earlier writes recorded; and after a write that
\* returns, a slot for which its result supplies one scalar value holds
\* that value.
C15_DedupPerCall ==
    \A n \in DOMAIN writes :
      LET w == writes[n] IN
      /\ w.written = {Pair(w.log[i]) : i \in EventsOf(w, {"write"})}
      /\ \A i \in FirstVisits(w) : w.log[i].e = "write"
      /\ ~w.failed =>
            \A i \in EventsOf(w, {"write"}) :
              \A slot \in Slots({w}, w.log[i].dataId) :
                \A v \in Supplied({w}, w.log[i].dataId, slot) :
                  (isString(v) /\ Supplied({w}, w.log[i].dataId, slot) = {v})
                    => w.after[w.log[i].dataId].f[slot] = v

\* the same query was written twice to one store with two results that
\* reach the same entity with different values for a field
C15_Witness ==
    \E n \in DOMAIN writes :
      /\ n > 1
      /\ LET a == writes[n - 1]
             b == writes[n]
         IN  /\ a.query = b.query /\ a.result # b.result
             /\ b.before = a.after /\ ~a.failed /\ ~b.failed
             /\ \E K \in EntityKeys(a) \cap EntityKeys(b) :
                  /\ <<K, "Q1_me">> \in a.written \cap b.written
                  /\ \E slot \in Slots({a}, K) \cap Slots({b}, K) :
                       /\ isString(a.after[K].f[slot])
                       /\ b.after[K].f[slot] # a.after[K].f[slot]

\* store b has every record of store a, each with every slot it has in a
Extends(b, a) ==
    \A K \in DOMAIN a :
      /\ K \in DOMAIN b
      /\ isObject(b[K])
      /\ DOMAIN a[K].f \subseteq DOMAIN b[K].f

\* C16: after every store.merge of a top-level write, and so after the
\* write, the store has every record it had before, each with every slot
\* it had; this holds along every sequence of writes to one store.
C16_RecordsOnlyGrow ==
    /\ \A n \in DOMAIN writes :
         LET w == writes[n] IN
         /\ Extends(w.after, w.before)
         /\ \A i \in DOMAIN w.log :
              /\ Extends(StoreAt(w, i), StoreAt(w, i - 1))
              /\ Extends(w.after, StoreAt(w, i))
         /\ (n > 1 /\ ~w.fresh) => Extends(w.after, writes[n - 1].before)
    /\ \A n \in OnThisStore : Extends(store, writes[n].after)

\* a write committed, for an entity already stored, a field map that lacks
\* a slot of the stored record and changes another
C16_Witness ==
    \E n \in DOMAIN writes :
      LET w == writes[n] IN
      \E j \in EventsOf(w, {"store.merge"}) :
        LET K == w.log[j].dataId IN
        /\ K \in DOMAIN w.before
        /\ DOMAIN w.before[K].f \ DOMAIN w.log[j].incoming.f # {}
        /\ \E slot \in DOMAIN w.log[j].incoming.f \cap DOMAIN w.before[K].f :
             w.log[j].incoming.f[slot] # w.before[K].f[slot]

\* processFieldValue of one list element on its own, in a new context
Alone(w, item, field) ==
    processFieldValue(
      [store |-> EmptyStore, written |-> {}, log |-> <<>>, failed |-> FALSE,
       variables |-> DeclaredDefaults,
       fragmentMap |-> Documents[w.query].fragmentMap],
      item, field)

\* the fields of a write that have a nested selection set and a list value
ListFields(w) ==
    {j \in EventsOf(w, {"field"}) :
       w.log[j].sub # NoSelectionSet /\ isArray(w.log[j].input)}

\* the elements of the list of field event j that report merge overrides
Reporting(w, j) ==
    {k \in DOMAIN w.log[j].input.items :
       Alone(w, w.log[j].input.items[k],
             SelectionSets[w.log[j].selectionSet][w.log[j].i]).mergeOverrides
         # Undefined}

\* the merge-function invocations of a write inside an element of a list
\* held by a slot of an entity: those at <<K, slot, index, name>>, with the
\* store.merge that commits the field map they belong to
ElementMerges(w) ==
    {x \in EventsOf(w, {"mergeFn"}) \X EventsOf(w, {"store.merge"}) :
       /\ x[1] < x[2]
       /\ w.log[x[2]].dataId = w.log[x[1]].path[1]
       /\ \A c \in EventsOf(w, {"store.merge"}) : c > x[1] => c >= x[2]
       /\ Len(w.log[x[1]].path) = 4
       /\ isArray(GetProp(w.log[x[2]].incoming, w.log[x[1]].path[2]))}

\* C17: a list value of a field with a nested selection set is stored as a
\* list of the same length whose element k is what processFieldValue makes
\* of input element k alone (null, a Reference, or an embedded object); the
\* overrides of the list have an entry at exactly the indices whose element
\* reports overrides, holding those overrides as child; and a merge
\* function inside element k gets position k of the stored list as
\* existing, position k of the processed list as incoming, and its result
\* is position k of the committed field map.
C17_ListProcessing ==
    \A n \in DOMAIN writes :
      LET w == writes[n]
          log == w.log
      IN  /\ \A j \in ListFields(w) :
                LET field == SelectionSets[log[j].selectionSet][log[j].i]
                    items == log[j].input.items
                    ov == log[j].overrides
                IN  /\ isArray(log[j].value)
                    /\ DOMAIN log[j].value.items = DOMAIN items
                    /\ \A k \in DOMAIN items :
                         /\ log[j].value.items[k] = Alone(w, items[k], field).result
                         /\ log[j].value.items[k] =
                              IF items[k] = Null THEN Null
                              ELSE IF isString(identify(items[k], field.selectionSet,
                                                        Documents[w.query].fragmentMap))
                              THEN makeReference(
                                     identify(items[k], field.selectionSet,
                                              Documents[w.query].fragmentMap).v)
                              ELSE O(log[j].value.items[k].f)
                    /\ IF Reporting(w, j) = {}
                       THEN ov = Undefined
                       ELSE /\ ov.t = "lov"
                            /\ DOMAIN ov.ati = Reporting(w, j)
                            /\ ov.keys = Ascending(Reporting(w, j))
                            /\ \A k \in Reporting(w, j) :
                                 ov.ati[k] =
                                   [merge |-> NoMerge,
                                    child |-> Alone(w, items[k], field).mergeOverrides]
          /\ \A x \in ElementMerges(w) :
                LET m == log[x[1]]
                    c == log[x[2]]
                IN  /\ m.existing = StoredAt(StoreAt(w, x[1] - 1), m.path)
                    /\ ValueAt(c.incoming, Tail(m.path)) = m.out
                    /\ \A j \in ListFields(w) :
                         (/\ j < x[1] /\ log[j].name = m.path[2]
                          /\ log[j].selectionSet = c.selectionSet
                          /\ \A h \in ListFields(w) :
                                (h < x[1] /\ log[h].name = m.path[2]
                                 /\ log[h].selectionSet = c.selectionSet) => h <= j) =>
                           m.incoming = ValueAt(log[j].value, SubSeq(m.path, 3, 4))

\* a list with an embedded element that reports nothing before one that
\* reports a merge function, a null and an identified element was written
\* over a stored list, and the merge function saw the stored position
C17_Witness ==
    \E n \in DOMAIN writes :
      LET w == writes[n] IN
      /\ \E j \in ListFields(w) :
           /\ Reporting(w, j) # {}
           /\ \E k \in DOMAIN w.log[j].input.items \ Reporting(w, j) :
                \E r \in Reporting(w, j) : k < r /\ isObject(w.log[j].value.items[k])
           /\ \E k \in DOMAIN w.log[j].input.items : w.log[j].value.items[k] = Null
           /\ \E k \in DOMAIN w.log[j].input.items : w.log[j].value.items[k].t = "ref"
      /\ \E x \in ElementMerges(w) :
           /\ isArray(w.log[x[1]].existing)
           /\ w.log[x[1]].out # w.log[x[1]].incoming

\* the entity keys of the References a value holds
RECURSIVE RefsIn(_)
RefsIn(value) ==
    IF value.t = "ref" THEN {value.id}
    ELSE IF isObject(value) THEN UNION {RefsIn(value.f[k]) : k \in DOMAIN value.f}
    ELSE IF isArray(value)
    THEN UNION {RefsIn(value.items[k]) : k \in DOMAIN value.items}
    ELSE {}

\* every Reference of a store points to a record of the store
Closed(st) == \A K \in DOMAIN st : RefsIn(st[K]) \subseteq DOMAIN st

\* C18 as claimed: a write that starts from a store in which every
\* Reference points to a record leaves, after each of its store.merge calls
\* and at its end, a store in which every Reference points to a record.
C18_NoDanglingReferences ==
    \A n \in DOMAIN writes :
      LET w == writes[n] IN
      Closed(w.before) =>
        /\ \A i \in DOMAIN w.log : Closed(StoreAt(w, i))
        /\ Closed(w.after)

\* the same, for the documents in which no fragment is spread inside itself
C18_ClosedWithoutRecursiveFragments ==
    \A n \in DOMAIN writes :
      LET w == writes[n] IN
      (Closed(w.before) /\ w.query # "Q14") =>
        /\ \A i \in DOMAIN w.log : Closed(StoreAt(w, i))
        /\ Closed(w.after)

\* the same, at the end of the writes that return
C18_ClosedAfterReturn ==
    \A n \in DOMAIN writes :
      LET w == writes[n] IN
      (Closed(w.before) /\ ~w.failed) => Closed(w.after)

\* the entity keys policies.identify returns for the objects of a result
\* tree that are reached through included fields and matching fragments
RECURSIVE KeysOfObject(_, _, _, _)
RECURSIVE KeysOfValue(_, _, _)
KeysOfObject(result, selectionSet, typename, fragmentMap) ==
    UNION {LET selection == SelectionSets[selectionSet][i]
               value == GetProp(result, resultKeyNameFromField(selection))
               fragment == getFragmentFromSelection(selection, fragmentMap)
           IN  IF ~shouldInclude(selection, DeclaredDefaults) THEN {}
               ELSE IF isField(selection)
               THEN IF value = Undefined \/ selection.selectionSet = NoSelectionSet
                    THEN {}
                    ELSE KeysOfValue(value, selection.selectionSet, fragmentMap)
               ELSE IF fragment = Undefined THEN {}
               ELSE IF fragmentMatches(fragment, typename)
               THEN KeysOfObject(result, fragment.selectionSet, typename, fragmentMap)
               ELSE {} :
           i \in DOMAIN SelectionSets[selectionSet]}

KeysOfValue(value, selectionSet, fragmentMap) ==
    IF isArray(value)
    THEN UNION {KeysOfValue(value.items[k], selectionSet, fragmentMap) :
                k \in DOMAIN value.items}
    ELSE IF ~isObject(value) THEN {}
    ELSE (IF isString(identify(value, selectionSet, fragmentMap))
          THEN {identify(value, selectionSet, fragmentMap).v} ELSE {})
         \cup KeysOfObject(value, selectionSet, GetProp(value, "__typename"),
                            fragmentMap)

\* the keys a write may commit: its target and the entity keys of its result
Frame(w) ==
    {w.dataId} \cup
    KeysOfObject(w.result, Documents[w.query].selectionSet,
                 FirstTypename(GetProp(w.result, "__typename"),
                               GetProp(Record(w.before, w.dataId), "__typename"),
                               rootTypenamesById(w.dataId)),
                 Documents[w.query].fragmentMap)

\* C20: a top-level write calls store.merge only for its target dataId and
\* for the entity keys policies.identify returns for the objects of the
\* result tree reached through included fields and matching fragments (for
\* all of them when it returns), and the record under every other key is
\* after the write what it was before.
C20_Frame ==
    \A n \in DOMAIN writes :
      LET w == writes[n] IN
      /\ Committed(w) \subseteq Frame(w)
      /\ ~w.failed => Committed(w) = Frame(w)
      /\ \A K \in (DOMAIN w.before \cup DOMAIN w.after) \ Frame(w) :
            Record(w.after, K) = Record(w.before, K)

\* a write whose result holds, under a field excluded by its directive, an
\* object identified as an entity the store has, and under an included
\* field another entity, left the first record alone
C20_Witness ==
    \E n \in DOMAIN writes :
      LET w == writes[n] IN
      /\ ~w.failed
      /\ \E i \in EventsOf(w, {"write"}) :
           \E f \in DOMAIN SelectionSets[w.log[i].selectionSet] :
             LET selection == SelectionSets[w.log[i].selectionSet][f]
                 value == GetProp(w.log[i].result, resultKeyNameFromField(selection))
             IN  /\ isField(selection)
                 /\ ~shouldInclude(selection, DeclaredDefaults)
                 /\ isObject(value)
                 /\ isString(identify(value, selection.selectionSet, NoFragments))
                 /\ identify(value, selection.selectionSet, NoFragments).v
                      \in DOMAIN w.before \ Frame(w)
      /\ Cardinality(Committed(w)) >= 3

\* the outcome of the one-action write of the same document and result
\* to a new store
WholeWrite ==
    writeQueryToStore(run.query, run.result, "ROOT_QUERY", EmptyStore, NoVariables)

\* the documents in which a fragment spreads itself on the same result
\* object, so that no call of the recursion consumes any of the result
SelfSpreading == {"Q16"}

\* the step-by-step write ends as the one-action write does: it returns
\* with the same written table, or fails when that one does
StepAgrees ==
    run.query \in Queries =>
      /\ run.status = "returned" =>
            ~WholeWrite.failed /\ run.written = WholeWrite.written
      /\ run.status = "failed" => WholeWrite.failed

====
